---- MODULE Spec2Model ----
(***************************************************************************)
(* A model of the token ledgers of helix-onchain/filecoin: the FRCXX NFT   *)
(* handle (frcxx_nft/src/lib.rs) and the FRC46 factory token               *)
(* (frc46_factory_token/token_impl/src/lib.rs), with the receiver-hook     *)
(* protocol and the re-entrant calls a receiver can make while its hook is *)
(* outstanding.                                                            *)
(***************************************************************************)
EXTENDS Integers, Sequences, FiniteSets, TLC

VARIABLES
    ledger,     \* which actor this is: the NFT actor or the factory token
    state,      \* the in-memory ledger state of the handle
    root,       \* the actor's root cid in the host environment
    root0,      \* the root when the current invocation started
    pc,         \* where the current invocation stands
    hook,       \* the receiver hook the current operation produced
    prior,      \* the cid the caller flushed before calling the hook
    receipt,    \* the receipt of the hook's send, once it has returned
    reentries,  \* re-entrant invocations made during the outstanding hook
    last        \* the latest library call: arguments, state before, result

vars == <<ledger, state, root, root0, pc, hook, prior, receipt, reentries, last>>

----------------------------------------------------------------------------
(* Bounds of the model *)

\* token ids are 0 .. MaxTokens-1; mint stops there
MaxTokens == 2
\* longest batch of token ids passed to one call
MaxBatch == 2
\* most tokens minted by one call
MaxMint == 2
\* most re-entrant invocations during one outstanding hook
MaxReenter == 1
\* most calls made on one receiver hook
MaxHookCalls == 2
\* largest amount passed to one fungible-token call
MaxAmount == 2
\* minting of the fungible token stops at this supply
MaxSupply == 3

(* Program constants *)
ALICE_ID == 1
BOB_ID == 2
FAKE_INITIALIZED_ID == 101

ActorIDs == {ALICE_ID, BOB_ID, FAKE_INITIALIZED_ID}

\* ids a caller can name: MaxTokens itself is never minted
TokenIDs == 0 .. MaxTokens
Batches == UNION {[1 .. n -> TokenIDs] : n \in 0 .. MaxBatch}

----------------------------------------------------------------------------
(* Results: Ok(value) or a typed error *)

OkRes(v) == [kind |-> "Ok", val |-> v]
IsOk(r) == r.kind = "Ok"
NotOwner(a, t) == [kind |-> "NotOwner", actor |-> a, token_id |-> t]
TokenNotFound(t) == [kind |-> "TokenNotFound", token_id |-> t]
AddressNotInitialised(addr) == [kind |-> "AddressNotInitialised", address |-> addr]
ReceiverError == [kind |-> "Receiver"]
InvalidGranularity == [kind |-> "InvalidGranularity"]
InsufficientBalance == [kind |-> "InsufficientBalance"]
InsufficientAllowance == [kind |-> "InsufficientAllowance"]
MintingDisabled == [kind |-> "MintingDisabled"]
AddressNotAuthorized == [kind |-> "AddressNotAuthorized"]
SerializationError == [kind |-> "Serialization"]
NoStateError == [kind |-> "NoState"]
AlreadyCalled == [kind |-> "AlreadyCalled"]

(* Maps (Hamt / Amt): partial functions *)
EmptyMap == [x \in {} |-> 0]
Put(f, k, v) == [x \in (DOMAIN f) \cup {k} |-> IF x = k THEN v ELSE f[x]]

----------------------------------------------------------------------------
(* Addresses and the messenger *)

IdAddr(id) == [payload |-> "ID", id |-> id]
BlsAddr == [payload |-> "BLS", id |-> 0]
ActorAddr == [payload |-> "Actor", id |-> 0]
Addresses == {IdAddr(ALICE_ID), IdAddr(BOB_ID), BlsAddr, ActorAddr}

\* FakeMessenger::resolve_id
ResolveId(address) ==
    IF address.payload = "ID" THEN OkRes(address.id)
    ELSE AddressNotInitialised(address)

\* FakeMessenger::initialise_account (never reached for an ID address)
InitialiseAccount(address) ==
    IF address.payload = "BLS" THEN OkRes(FAKE_INITIALIZED_ID)
    ELSE AddressNotInitialised(address)

\* Messaging::resolve_or_init: resolve, and initialise what does not resolve
ResolveOrInit(address) ==
    LET r == ResolveId(address)
    IN  IF IsOk(r) THEN r ELSE InitialiseAccount(address)

----------------------------------------------------------------------------
(* NFTState *)

NewState ==
    [token_data |-> EmptyMap, owner_data |-> EmptyMap,
     next_token |-> 0, total_supply |-> 0]

NewOwnerData == [balance |-> 0, operators |-> {}]

\* mutant: the supply is left out of the block
Save_WithoutSupply(st) ==
    [codec |-> "dag-cbor",
     data |-> <<st.token_data, st.owner_data, st.next_token, 0>>]

\* NFTState::save: the state's fields as a tuple in a block
Save(st) ==
    [codec |-> "dag-cbor",
     data |-> <<st.token_data, st.owner_data, st.next_token, st.total_supply>>]

\* NFTState::load
Load(cid) ==
    [token_data |-> cid.data[1], owner_data |-> cid.data[2],
     next_token |-> cid.data[3], total_supply |-> cid.data[4]]

\* NFTState::get_balance
GetBalance(st, owner) ==
    IF owner \in DOMAIN st.owner_data THEN st.owner_data[owner].balance ELSE 0

\* NFTState::owns_token
OwnsToken(token_array, actor, token_id) ==
    IF token_id \notin DOMAIN token_array THEN TokenNotFound(token_id)
    ELSE IF token_array[token_id].owner # actor THEN NotOwner(actor, token_id)
    ELSE OkRes(0)

\* mutant: the previous owner's record is written afresh, without its
\* account-level operators
MakeTransfer_DropsAccountOperators(token_array, owner_map, token_id, receiver) ==
    IF token_id \notin DOMAIN token_array
    THEN [res |-> TokenNotFound(token_id),
          token_array |-> token_array, owner_map |-> owner_map]
    ELSE LET old == token_array[token_id]
             ta == Put(token_array, token_id,
                       [owner |-> receiver, operators |-> {}])
             om1 == Put(owner_map, old.owner,
                        [balance |-> owner_map[old.owner].balance - 1,
                         operators |-> {}])
             recv == IF receiver \in DOMAIN om1 THEN om1[receiver]
                     ELSE NewOwnerData
             om2 == Put(om1, receiver, [recv EXCEPT !.balance = @ + 1])
         IN  [res |-> OkRes(0), token_array |-> ta, owner_map |-> om2]

\* mutant: the previous owner's balance is left as it was
MakeTransfer_KeepsSenderBalance(token_array, owner_map, token_id, receiver) ==
    IF token_id \notin DOMAIN token_array
    THEN [res |-> TokenNotFound(token_id),
          token_array |-> token_array, owner_map |-> owner_map]
    ELSE LET ta == Put(token_array, token_id,
                       [owner |-> receiver, operators |-> {}])
             recv == IF receiver \in DOMAIN owner_map THEN owner_map[receiver]
                     ELSE NewOwnerData
             om2 == Put(owner_map, receiver, [recv EXCEPT !.balance = @ + 1])
         IN  [res |-> OkRes(0), token_array |-> ta, owner_map |-> om2]

\* mutant: a token that stays with its owner keeps its approved operators
MakeTransfer_KeepsApprovals(token_array, owner_map, token_id, receiver) ==
    IF token_id \notin DOMAIN token_array
    THEN [res |-> TokenNotFound(token_id),
          token_array |-> token_array, owner_map |-> owner_map]
    ELSE LET old == token_array[token_id]
             ta == Put(token_array, token_id,
                       [owner |-> receiver,
                        operators |-> IF receiver = old.owner
                                      THEN old.operators ELSE {}])
             om1 == Put(owner_map, old.owner,
                        [owner_map[old.owner] EXCEPT !.balance = @ - 1])
             recv == IF receiver \in DOMAIN om1 THEN om1[receiver]
                     ELSE NewOwnerData
             om2 == Put(om1, receiver, [recv EXCEPT !.balance = @ + 1])
         IN  [res |-> OkRes(0), token_array |-> ta, owner_map |-> om2]

\* NFTState::make_transfer: new owner, approved operators cleared, one token
\* off the previous owner's balance and one onto the receiver's
MakeTransfer(token_array, owner_map, token_id, receiver) ==
    IF token_id \notin DOMAIN token_array
    THEN [res |-> TokenNotFound(token_id),
          token_array |-> token_array, owner_map |-> owner_map]
    ELSE LET old == token_array[token_id]
             ta == Put(token_array, token_id,
                       [owner |-> receiver, operators |-> {}])
             om1 == Put(owner_map, old.owner,
                        [owner_map[old.owner] EXCEPT !.balance = @ - 1])
             recv == IF receiver \in DOMAIN om1 THEN om1[receiver]
                     ELSE NewOwnerData
             om2 == Put(om1, receiver, [recv EXCEPT !.balance = @ + 1])
         IN  [res |-> OkRes(0), token_array |-> ta, owner_map |-> om2]

RECURSIVE MintLoop(_, _, _)
MintLoop(st, owner, n) ==
    IF n = 0 THEN st
    ELSE LET rec == IF owner \in DOMAIN st.owner_data THEN st.owner_data[owner]
                    ELSE NewOwnerData
             st1 == [token_data |-> Put(st.token_data, st.next_token,
                                        [owner |-> owner, operators |-> {}]),
                     owner_data |-> Put(st.owner_data, owner,
                                        [rec EXCEPT !.balance = @ + 1]),
                     next_token |-> st.next_token + 1,
                     total_supply |-> st.total_supply + 1]
         IN  MintLoop(st1, owner, n - 1)

\* NFTState::mint_tokens: the next n sequential ids go to initial_owner
MintTokens(st, initial_owner, n) == MintLoop(st, initial_owner, n)

RECURSIVE ApproveLoop(_, _, _, _)
ApproveLoop(token_array, caller, operator, ids) ==
    IF ids = <<>> THEN [res |-> OkRes(0), token_array |-> token_array]
    ELSE LET chk == OwnsToken(token_array, caller, Head(ids))
         IN  IF ~IsOk(chk) THEN [res |-> chk, token_array |-> token_array]
             ELSE ApproveLoop(
                    [token_array EXCEPT ![Head(ids)].operators = @ \cup {operator}],
                    caller, operator, Tail(ids))

\* NFTState::approve_for_tokens: all ids or none
ApproveForTokens(st, caller, operator, ids) ==
    LET r == ApproveLoop(st.token_data, caller, operator, ids)
    IN  IF IsOk(r.res)
        THEN [res |-> r.res, state |-> [st EXCEPT !.token_data = r.token_array]]
        ELSE [res |-> r.res, state |-> st]

RECURSIVE RevokeLoop(_, _, _, _)
RevokeLoop(token_array, caller, operator, ids) ==
    IF ids = <<>> THEN [res |-> OkRes(0), token_array |-> token_array]
    ELSE LET chk == OwnsToken(token_array, caller, Head(ids))
         IN  IF ~IsOk(chk) THEN [res |-> chk, token_array |-> token_array]
             ELSE RevokeLoop(
                    [token_array EXCEPT ![Head(ids)].operators = @ \ {operator}],
                    caller, operator, Tail(ids))

\* NFTState::revoke_for_tokens: all ids or none
RevokeForTokens(st, caller, operator, ids) ==
    LET r == RevokeLoop(st.token_data, caller, operator, ids)
    IN  IF IsOk(r.res)
        THEN [res |-> r.res, state |-> [st EXCEPT !.token_data = r.token_array]]
        ELSE [res |-> r.res, state |-> st]

\* NFTState::approve_for_owner: the operator joins the account's operators
StateApproveForOwner(st, owner, operator) ==
    LET rec == IF owner \in DOMAIN st.owner_data THEN st.owner_data[owner]
               ELSE NewOwnerData
    IN  [res |-> OkRes(0),
         state |-> [st EXCEPT !.owner_data =
                       Put(@, owner, [rec EXCEPT !.operators = @ \cup {operator}])]]

\* NFTState::revoke_for_all: the operator leaves the account's operators; an
\* account without a record stays without one
StateRevokeForAll(st, owner, operator) ==
    IF owner \in DOMAIN st.owner_data
    THEN [res |-> OkRes(0),
          state |-> [st EXCEPT !.owner_data[owner].operators = @ \ {operator}]]
    ELSE [res |-> OkRes(0), state |-> st]

----------------------------------------------------------------------------
(* Receiver hook and the intermediates it carries *)

NoInter == [op |-> "none", from |-> 0, to |-> 0, ids |-> <<>>]
\* called is the hook's own flag; calls, sends and failed count the calls made
\* on it, the notifications it sent and the calls it refused
NoHook ==
    [live |-> FALSE, called |-> FALSE, calls |-> 0, sends |-> 0, failed |-> 0,
     to |-> IdAddr(0), inter |-> NoInter]

\* ReceiverHook::new_frcxx: a pending hook bound to the recipient
NewHook(address, inter) ==
    [live |-> TRUE, called |-> FALSE, calls |-> 0, sends |-> 0, failed |-> 0,
     to |-> address, inter |-> inter]

\* mutant: the hook does not look at its called flag
HookCall_NoGuard(h) ==
    [res |-> OkRes(0),
     hook |-> [h EXCEPT !.called = TRUE, !.calls = @ + 1, !.sends = @ + 1]]

\* ReceiverHook::call, up to and including its send: a hook that was called
\* before fails without sending
HookCall(h) ==
    IF h.called
    THEN [res |-> AlreadyCalled,
          hook |-> [h EXCEPT !.calls = @ + 1, !.failed = @ + 1]]
    ELSE [res |-> OkRes(0),
          hook |-> [h EXCEPT !.called = TRUE, !.calls = @ + 1, !.sends = @ + 1]]

\* mutant: the receipt is handed back as it is, whatever its exit code
HookOutcome_Raw(rcpt) == OkRes(0)

\* ReceiverHook::call, after its send: a receipt with a failure exit code is
\* an error
HookOutcome(rcpt) == IF rcpt.ok THEN OkRes(0) ELSE ReceiverError

NoReceipt == [returned |-> FALSE, ok |-> FALSE]
NoRet == [set |-> FALSE, from_balance |-> 0, to_balance |-> 0, supply |-> 0]

\* NFTState::transfer_return / mint_return: balances read from the state
StateTransferReturn(st, inter) ==
    [set |-> TRUE, from_balance |-> GetBalance(st, inter.from),
     to_balance |-> GetBalance(st, inter.to), supply |-> st.total_supply]

----------------------------------------------------------------------------
(* The NFT handle *)

\* NFT::flush
Flush(st) == Save(st)

\* NFT::load_replace: the loaded state replaces the handle's, the old one is
\* handed back
LoadReplace(st, cid) == [state |-> Load(cid), old |-> st]

\* mutant: the closure's writes stay although it failed
Transaction_NoRollback(live, out) == [state |-> out.state, res |-> out.res]

\* mutant: the copy is dropped although the closure succeeded
Transaction_KeepsLive(live, out) == [state |-> live, res |-> out.res]

\* NFT::transaction: out is what the closure made of the private copy and
\* what it returned; the copy replaces the live state only on success
Transaction(live, out) ==
    IF IsOk(out.res) THEN [state |-> out.state, res |-> out.res]
    ELSE [state |-> live, res |-> out.res]

\* mutant: a token that is not the owner's is transferred all the same
RECURSIVE TransferLoop_Unchecked(_, _, _, _, _)
TransferLoop_Unchecked(token_array, owner_map, owner_id, recipient_id, ids) ==
    IF ids = <<>>
    THEN [res |-> OkRes(0), token_array |-> token_array, owner_map |-> owner_map]
    ELSE LET chk == OwnsToken(token_array, owner_id, Head(ids))
             mt == MakeTransfer(token_array, owner_map, Head(ids), recipient_id)
         IN  IF chk.kind = "TokenNotFound"
             THEN [res |-> chk, token_array |-> token_array,
                   owner_map |-> owner_map]
             ELSE TransferLoop_Unchecked(mt.token_array, mt.owner_map, owner_id,
                                         recipient_id, Tail(ids))

\* mutant: an id that is not in the token array is skipped
RECURSIVE TransferLoop_SkipsMissing(_, _, _, _, _)
TransferLoop_SkipsMissing(token_array, owner_map, owner_id, recipient_id, ids) ==
    IF ids = <<>>
    THEN [res |-> OkRes(0), token_array |-> token_array, owner_map |-> owner_map]
    ELSE LET chk == OwnsToken(token_array, owner_id, Head(ids))
             mt == MakeTransfer(token_array, owner_map, Head(ids), recipient_id)
         IN  IF chk.kind = "TokenNotFound"
             THEN TransferLoop_SkipsMissing(token_array, owner_map, owner_id,
                                            recipient_id, Tail(ids))
             ELSE IF ~IsOk(chk)
             THEN [res |-> chk, token_array |-> token_array,
                   owner_map |-> owner_map]
             ELSE TransferLoop_SkipsMissing(mt.token_array, mt.owner_map,
                                            owner_id, recipient_id, Tail(ids))

RECURSIVE TransferLoop(_, _, _, _, _)
TransferLoop(token_array, owner_map, owner_id, recipient_id, ids) ==
    IF ids = <<>>
    THEN [res |-> OkRes(0), token_array |-> token_array, owner_map |-> owner_map]
    ELSE LET chk == OwnsToken(token_array, owner_id, Head(ids))
         IN  IF ~IsOk(chk)
             THEN [res |-> chk, token_array |-> token_array,
                   owner_map |-> owner_map]
             ELSE LET mt == MakeTransfer(token_array, owner_map, Head(ids),
                                         recipient_id)
                  IN  IF ~IsOk(mt.res) THEN mt
                      ELSE TransferLoop(mt.token_array, mt.owner_map, owner_id,
                                        recipient_id, Tail(ids))

\* mutant: make_transfer is handed the owner where the recipient belongs
TransferClosure_KeepsOwner(copy, owner_id, recipient_id, ids) ==
    LET r == TransferLoop(copy.token_data, copy.owner_data, owner_id,
                          owner_id, ids)
    IN  IF IsOk(r.res)
        THEN [res |-> r.res,
              state |-> [copy EXCEPT !.token_data = r.token_array,
                                     !.owner_data = r.owner_map]]
        ELSE [res |-> r.res, state |-> copy]

\* the closure NFT::transfer passes to transaction: the loop works on the
\* loaded token array and owner map, which reach the copy only at the end
TransferClosure(copy, owner_id, recipient_id, ids) ==
    LET r == TransferLoop(copy.token_data, copy.owner_data, owner_id,
                          recipient_id, ids)
    IN  IF IsOk(r.res)
        THEN [res |-> r.res,
              state |-> [copy EXCEPT !.token_data = r.token_array,
                                     !.owner_data = r.owner_map]]
        ELSE [res |-> r.res, state |-> copy]

\* mutant: the tokens move only once the hook is called; until then the
\* handle's state is as it was
Transfer_Deferred(st, owner, recipient, ids) ==
    LET o == ResolveOrInit(owner)
        r == ResolveOrInit(recipient)
    IN  IF ~IsOk(o) THEN [state |-> st, res |-> o, hook |-> NoHook]
        ELSE IF ~IsOk(r) THEN [state |-> st, res |-> r, hook |-> NoHook]
        ELSE LET tx == Transaction(st, TransferClosure(st, o.val, r.val, ids))
             IN  IF ~IsOk(tx.res)
                 THEN [state |-> st, res |-> tx.res, hook |-> NoHook]
                 ELSE [state |-> st, res |-> tx.res,
                       hook |-> NewHook(recipient,
                                        [op |-> "transfer", from |-> o.val,
                                         to |-> r.val, ids |-> ids])]

\* NFT::transfer
Transfer(st, owner, recipient, ids) ==
    LET o == ResolveOrInit(owner)
        r == ResolveOrInit(recipient)
    IN  IF ~IsOk(o) THEN [state |-> st, res |-> o, hook |-> NoHook]
        ELSE IF ~IsOk(r) THEN [state |-> st, res |-> r, hook |-> NoHook]
        ELSE LET tx == Transaction(st, TransferClosure(st, o.val, r.val, ids))
             IN  IF ~IsOk(tx.res)
                 THEN [state |-> tx.state, res |-> tx.res, hook |-> NoHook]
                 ELSE [state |-> tx.state, res |-> tx.res,
                       hook |-> NewHook(recipient,
                                        [op |-> "transfer", from |-> o.val,
                                         to |-> r.val, ids |-> ids])]

\* NFT::mint
Mint(st, operator, initial_owner, n) ==
    LET o == ResolveId(operator)
        r == ResolveOrInit(initial_owner)
    IN  IF ~IsOk(o) THEN [state |-> st, res |-> o, hook |-> NoHook]
        ELSE IF ~IsOk(r) THEN [state |-> st, res |-> r, hook |-> NoHook]
        ELSE [state |-> MintTokens(st, r.val, n), res |-> OkRes(0),
              hook |-> NewHook(initial_owner,
                               [op |-> "mint", from |-> 0, to |-> r.val,
                                ids |-> [i \in 1 .. n |-> st.next_token + i - 1]])]

\* NFT::approve
Approve(st, caller, operator, ids) ==
    LET c == ResolveId(caller)
        o == ResolveOrInit(operator)
    IN  IF ~IsOk(c) THEN [state |-> st, res |-> c]
        ELSE IF ~IsOk(o) THEN [state |-> st, res |-> o]
        ELSE ApproveForTokens(st, c.val, o.val, ids)

\* mutant: an operator that does not resolve is an error
Revoke_Strict(st, caller, operator, ids) ==
    LET c == ResolveId(caller)
        o == ResolveId(operator)
    IN  IF ~IsOk(c) THEN [state |-> st, res |-> c]
        ELSE IF ~IsOk(o) THEN [state |-> st, res |-> o]
        ELSE RevokeForTokens(st, c.val, o.val, ids)

\* NFT::revoke: an operator that does not resolve makes it a no-op
Revoke(st, caller, operator, ids) ==
    LET c == ResolveId(caller)
        o == ResolveId(operator)
    IN  IF ~IsOk(c) THEN [state |-> st, res |-> c]
        ELSE IF ~IsOk(o) THEN [state |-> st, res |-> OkRes(0)]
        ELSE RevokeForTokens(st, c.val, o.val, ids)

\* mutant: the owner's record is written before the operator is resolved
ApproveForOwner_RecordsFirst(st, owner, operator) ==
    LET w == ResolveId(owner)
        o == ResolveOrInit(operator)
    IN  IF ~IsOk(w) THEN [state |-> st, res |-> w]
        ELSE IF ~IsOk(o)
        THEN [state |-> StateApproveForOwner(st, w.val, w.val).state, res |-> o]
        ELSE StateApproveForOwner(st, w.val, o.val)

\* NFT::approve_for_owner
ApproveForOwner(st, owner, operator) ==
    LET w == ResolveId(owner)
        o == ResolveOrInit(operator)
    IN  IF ~IsOk(w) THEN [state |-> st, res |-> w]
        ELSE IF ~IsOk(o) THEN [state |-> st, res |-> o]
        ELSE StateApproveForOwner(st, w.val, o.val)

\* NFT::revoke_for_all
RevokeForAll(st, owner, operator) ==
    LET w == ResolveId(owner)
        o == ResolveId(operator)
    IN  IF ~IsOk(w) THEN [state |-> st, res |-> w]
        ELSE IF ~IsOk(o) THEN [state |-> st, res |-> OkRes(0)]
        ELSE StateRevokeForAll(st, w.val, o.val)

SyscallError == [kind |-> "Syscall"]

\* mutant: every failure to resolve is an error
BalanceOf_Strict(st, resolved) ==
    IF IsOk(resolved) THEN OkRes(GetBalance(st, resolved.val)) ELSE resolved

\* NFT::balance_of, given what resolve_id answered: an address that does not
\* resolve has a balance of zero, any other error is handed on
BalanceOf(st, resolved) ==
    IF IsOk(resolved) THEN OkRes(GetBalance(st, resolved.val))
    ELSE IF resolved.kind = "AddressNotInitialised" THEN OkRes(0)
    ELSE resolved

\* mutant: the state is never reloaded
ReloadIfChanged_Never(st, current_cid, expected_cid) ==
    [state |-> st, old |-> [some |-> FALSE]]

\* NFT::reload_if_changed
ReloadIfChanged(st, current_cid, expected_cid) ==
    IF current_cid # expected_cid
    THEN LET lr == LoadReplace(st, current_cid)
         IN  [state |-> lr.state, old |-> [some |-> TRUE, val |-> lr.old]]
    ELSE [state |-> st, old |-> [some |-> FALSE]]

\* mutant: the return value is read from the state in memory
TransferReturn_Stale(st, current_cid, inter, prior_state_cid) ==
    [state |-> st, old |-> [some |-> FALSE],
     ret |-> StateTransferReturn(st, inter)]

\* NFT::transfer_return, NFT::mint_return
TransferReturn(st, current_cid, inter, prior_state_cid) ==
    LET rl == ReloadIfChanged(st, current_cid, prior_state_cid)
    IN  [state |-> rl.state, old |-> rl.old,
         ret |-> StateTransferReturn(rl.state, inter)]

RECURSIVE EagerLoop(_, _, _, _)
EagerLoop(copy, owner_id, recipient_id, ids) ==
    IF ids = <<>> THEN [res |-> OkRes(0), state |-> copy]
    ELSE LET chk == OwnsToken(copy.token_data, owner_id, Head(ids))
             mt == MakeTransfer(copy.token_data, copy.owner_data, Head(ids),
                                recipient_id)
         IN  IF ~IsOk(chk) THEN [res |-> chk, state |-> copy]
             ELSE EagerLoop([copy EXCEPT !.token_data = mt.token_array,
                                         !.owner_data = mt.owner_map],
                            owner_id, recipient_id, Tail(ids))

\* a caller's closure for NFT::transaction that writes each id's transfer
\* into the copy as it goes, and returns how many ids it moved
EagerClosure(copy, owner_id, recipient_id, ids) ==
    LET r == EagerLoop(copy, owner_id, recipient_id, ids)
    IN  IF IsOk(r.res) THEN [res |-> OkRes(Len(ids)), state |-> r.state]
        ELSE r

----------------------------------------------------------------------------
(* Invocations of the NFT actor.  Each starts from the state at the root.   *)

----------------------------------------------------------------------------
(* The fungible token: frc46_token's TokenState and Token, and the
   FactoryToken actor that wraps them *)

Amounts == 0 .. MaxAmount

\* TokenState::new
NewTokenState == [supply |-> 0, balances |-> EmptyMap, allowances |-> EmptyMap]

\* TokenState::get_balance: no entry is a balance of zero
TokenBalance(ts, owner) ==
    IF owner \in DOMAIN ts.balances THEN ts.balances[owner] ELSE 0

\* TokenState::get_allowance_between
TokenAllowance(ts, owner, operator) ==
    IF <<owner, operator>> \in DOMAIN ts.allowances
    THEN ts.allowances[<<owner, operator>>] ELSE 0

\* a map entry is written, or dropped when its value is zero
SetOrDrop(f, k, v) ==
    IF v = 0 THEN [x \in (DOMAIN f) \ {k} |-> f[x]] ELSE Put(f, k, v)

\* TokenState::change_balance_by
ChangeBalanceBy(ts, owner, delta) ==
    [ts EXCEPT !.balances = SetOrDrop(@, owner, TokenBalance(ts, owner) + delta)]

\* TokenState::make_transfer
TokenMakeTransfer(ts, from, to, amount) ==
    ChangeBalanceBy(ChangeBalanceBy(ts, from, 0 - amount), to, amount)

\* mutant: any amount passes
ValidAmount_Any(granularity, amount) == TRUE

\* Token::validate_amount_with_granularity
ValidAmount(granularity, amount) == amount % granularity = 0

\* Token::mint: amount checked, owner resolved or initialised, balance and
\* supply raised inside a transaction, a pending hook handed back
TokenMint(ts, granularity, operator, initial_owner, amount) ==
    LET o == ResolveOrInit(initial_owner)
    IN  IF ~ValidAmount(granularity, amount)
        THEN [res |-> InvalidGranularity, token |-> ts, hook |-> NoHook]
        ELSE IF ~IsOk(o)
        THEN [res |-> o, token |-> ts, hook |-> NoHook]
        ELSE [res |-> OkRes(0),
              token |-> [ChangeBalanceBy(ts, o.val, amount)
                            EXCEPT !.supply = @ + amount],
              hook |-> NewHook(initial_owner,
                               [op |-> "ft_mint", from |-> o.val, to |-> o.val,
                                ids |-> <<amount>>])]

\* Token::transfer: the owner moves its own tokens
TokenTransfer(ts, granularity, from, to, amount) ==
    LET f == ResolveId(from)
        t == ResolveOrInit(to)
    IN  IF ~ValidAmount(granularity, amount)
        THEN [res |-> InvalidGranularity, token |-> ts, hook |-> NoHook]
        ELSE IF ~IsOk(f)
        THEN [res |-> f, token |-> ts, hook |-> NoHook]
        ELSE IF ~IsOk(t)
        THEN [res |-> t, token |-> ts, hook |-> NoHook]
        ELSE IF TokenBalance(ts, f.val) < amount
        THEN [res |-> InsufficientBalance, token |-> ts, hook |-> NoHook]
        ELSE [res |-> OkRes(0),
              token |-> TokenMakeTransfer(ts, f.val, t.val, amount),
              hook |-> NewHook(to, [op |-> "ft_transfer", from |-> f.val,
                                    to |-> t.val, ids |-> <<amount>>])]

\* Token::transfer_from: an operator moves the owner's tokens against its
\* allowance, which goes down by the amount
TokenTransferFrom(ts, granularity, operator, from, to, amount) ==
    LET p == ResolveId(operator)
        f == ResolveId(from)
        t == ResolveOrInit(to)
    IN  IF ~ValidAmount(granularity, amount)
        THEN [res |-> InvalidGranularity, token |-> ts, hook |-> NoHook]
        ELSE IF ~IsOk(p) \/ ~IsOk(f)
        THEN [res |-> InsufficientAllowance, token |-> ts, hook |-> NoHook]
        ELSE IF ~IsOk(t)
        THEN [res |-> t, token |-> ts, hook |-> NoHook]
        ELSE IF TokenAllowance(ts, f.val, p.val) < amount
        THEN [res |-> InsufficientAllowance, token |-> ts, hook |-> NoHook]
        ELSE IF TokenBalance(ts, f.val) < amount
        THEN [res |-> InsufficientBalance, token |-> ts, hook |-> NoHook]
        ELSE [res |-> OkRes(0),
              token |-> [TokenMakeTransfer(ts, f.val, t.val, amount)
                            EXCEPT !.allowances =
                                SetOrDrop(@, <<f.val, p.val>>,
                                    TokenAllowance(ts, f.val, p.val) - amount)],
              hook |-> NewHook(to, [op |-> "ft_transfer_from", from |-> f.val,
                                    to |-> t.val, ids |-> <<amount>>])]

\* Token::increase_allowance
TokenIncreaseAllowance(ts, owner, operator, delta) ==
    LET o == ResolveOrInit(owner)
        p == ResolveOrInit(operator)
    IN  IF ~IsOk(o) THEN [res |-> o, token |-> ts]
        ELSE IF ~IsOk(p) THEN [res |-> p, token |-> ts]
        ELSE [res |-> OkRes(TokenAllowance(ts, o.val, p.val) + delta),
              token |-> [ts EXCEPT !.allowances =
                            SetOrDrop(@, <<o.val, p.val>>,
                                TokenAllowance(ts, o.val, p.val) + delta)]]

\* Token::mint_return / transfer_return / transfer_from_return: the balances
\* and the supply as the token state has them
TokenReturn(ts, inter) ==
    [set |-> TRUE,
     from_balance |-> TokenBalance(ts, inter.from),
     to_balance |-> TokenBalance(ts, inter.to),
     supply |-> ts.supply]

NoMinter == [some |-> FALSE, val |-> 0]
SomeMinter(id) == [some |-> TRUE, val |-> id]

\* FactoryToken::new
NewFactoryToken(granularity, minter) ==
    [token |-> NewTokenState, name |-> "name", symbol |-> "symbol",
     granularity |-> granularity, minter |-> minter]

\* FactoryToken::save: the state's fields as a tuple in a DAG_CBOR block
FactorySave(st) ==
    [codec |-> "DAG_CBOR",
     data |-> <<st.token, st.name, st.symbol, st.granularity, st.minter>>]

\* FactoryTokenState::load
FactoryLoad(cid) ==
    [token |-> cid.data[1], name |-> cid.data[2], symbol |-> cid.data[3],
     granularity |-> cid.data[4], minter |-> cid.data[5]]

\* mutant: the state is reloaded from the cid it was saved to
FactoryReload_Initial(st, new_cid, initial_cid) ==
    IF new_cid # initial_cid THEN FactoryLoad(initial_cid) ELSE st

\* mutant: a reload keeps the minter the handle had in memory
FactoryReload_KeepsMinter(st, new_cid, initial_cid) ==
    IF new_cid # initial_cid
    THEN [FactoryLoad(new_cid) EXCEPT !.minter = st.minter]
    ELSE st

\* FactoryToken::reload
FactoryReload(st, new_cid, initial_cid) ==
    IF new_cid # initial_cid THEN FactoryLoad(new_cid) ELSE st

\* mutant: the hook is called before the state is saved and set as the root
FactoryPersistAndCall_HookFirst(st, h, cur_root, fault) ==
    [res |-> IF fault = "save" THEN SerializationError
             ELSE IF fault = "set_root" THEN NoStateError ELSE OkRes(0),
     root |-> cur_root, hook |-> HookCall(h).hook]

\* save, set_root and hook.call as FactoryToken's transfer, transfer_from and
\* mint run them; fault names the step the runtime fails, if any
FactoryPersistAndCall(st, h, cur_root, fault) ==
    IF fault = "save"
    THEN [res |-> SerializationError, root |-> cur_root, hook |-> h]
    ELSE IF fault = "set_root"
    THEN [res |-> NoStateError, root |-> cur_root, hook |-> h]
    ELSE [res |-> OkRes(0), root |-> FactorySave(st), hook |-> HookCall(h).hook]

\* mutant: the return value is read without reloading
FactoryReturn_Stale(st, new_cid, initial_cid, inter) ==
    [state |-> st, ret |-> TokenReturn(st.token, inter)]

\* reload(&cid) and token().*_return, the tail of FactoryToken's transfer,
\* transfer_from and mint
FactoryReturn(st, new_cid, initial_cid, inter) ==
    LET s == FactoryReload(st, new_cid, initial_cid)
    IN  [state |-> s, ret |-> TokenReturn(s.token, inter)]

\* Token::burn: the owner's balance and the supply go down by the amount
TokenBurn(ts, granularity, owner, amount) ==
    LET o == ResolveId(owner)
    IN  IF ~ValidAmount(granularity, amount)
        THEN [res |-> InvalidGranularity, token |-> ts]
        ELSE IF ~IsOk(o) THEN [res |-> InsufficientBalance, token |-> ts]
        ELSE IF TokenBalance(ts, o.val) < amount
        THEN [res |-> InsufficientBalance, token |-> ts]
        ELSE [res |-> OkRes(TokenBalance(ts, o.val) - amount),
              token |-> [ChangeBalanceBy(ts, o.val, 0 - amount)
                            EXCEPT !.supply = @ - amount]]

\* mutant: minting is not looked up as disabled
FactoryMintCheck_IgnoresDisabled(st, caller_id) ==
    IF st.minter.some /\ caller_id # st.minter.val THEN AddressNotAuthorized
    ELSE OkRes(0)

\* mutant: any caller may mint while a minter is set
FactoryMintCheck_AnyCaller(st, caller_id) ==
    IF ~st.minter.some THEN MintingDisabled ELSE OkRes(0)

\* mutant: any caller may disable minting
DisableMint_AnyCaller(st, caller_id) ==
    IF ~st.minter.some THEN [state |-> st, res |-> MintingDisabled]
    ELSE [state |-> [st EXCEPT !.minter = NoMinter], res |-> OkRes(0)]

\* FactoryToken::disable_mint
DisableMint(st, caller_id) ==
    IF ~st.minter.some THEN [state |-> st, res |-> MintingDisabled]
    ELSE IF caller_id # st.minter.val
    THEN [state |-> st, res |-> AddressNotAuthorized]
    ELSE [state |-> [st EXCEPT !.minter = NoMinter], res |-> OkRes(0)]

\* FactoryToken::mint up to its token().mint: only the minter mints, and
\* nobody once minting is disabled
FactoryMintCheck(st, caller_id) ==
    IF ~st.minter.some THEN MintingDisabled
    ELSE IF caller_id # st.minter.val THEN AddressNotAuthorized
    ELSE OkRes(0)

\* the record of a call: pre is the state it started from, copy and cres what
\* its transaction closure left in the private copy and returned, res the
\* call's result, hook_res the hook call's, mem the state in memory when the
\* hook had returned, old what reload_if_changed handed back, ret the value
\* of its *_return, method the method number it was dispatched on, flushes
\* the calls the dispatcher made of its flush_state, and exit the exit code
\* its error was converted to
NoCall ==
    [op |-> "none", a1 |-> IdAddr(0), a2 |-> IdAddr(0), ids |-> <<>>,
     pre |-> NewState, copy |-> NewState, cres |-> OkRes(0), res |-> OkRes(0),
     hook_res |-> OkRes(0), mem |-> NewState, old |-> [some |-> FALSE],
     ret |-> NoRet, method |-> 0, flushes |-> 0, exit |-> "none"]

Call(op, a1, a2, ids, pre, out, res) ==
    [op |-> op, a1 |-> a1, a2 |-> a2, ids |-> ids,
     pre |-> pre, copy |-> out.state, cres |-> out.res, res |-> res,
     hook_res |-> OkRes(0), mem |-> NewState, old |-> [some |-> FALSE],
     ret |-> NoRet, method |-> 0, flushes |-> 0, exit |-> "none"]

IdAddresses == {IdAddr(ALICE_ID), IdAddr(BOB_ID)}
SingleIds == {<<t>> : t \in TokenIDs}

Granularities == {1, 2}
FactoryCallers == {ALICE_ID, BOB_ID}
Faults == {"none", "save", "set_root"}

\* the NFT actor after its constructor
InitNFT ==
    /\ ledger = "NFT"
    /\ state = NewState
    /\ root = Save(NewState)

\* the factory token after construct_token, with Alice as its minter
InitFactory ==
    /\ ledger = "FactoryToken"
    /\ \E g \in Granularities :
          /\ state = NewFactoryToken(g, SomeMinter(ALICE_ID))
          /\ root = FactorySave(NewFactoryToken(g, SomeMinter(ALICE_ID)))

Init ==
    /\ InitNFT \/ InitFactory
    /\ root0 = root
    /\ pc = "idle"
    /\ hook = NoHook
    /\ prior = root
    /\ receipt = NoReceipt
    /\ reentries = 0
    /\ last = NoCall

\* NFT::mint of n tokens
NFTMint(operator, initial_owner, n) ==
    /\ pc = "idle"
    /\ ledger = "NFT"
    /\ LET st0 == Load(root)
           r == Mint(st0, operator, initial_owner, n)
       IN  /\ st0.next_token + n <= MaxTokens
           /\ state' = r.state
           /\ hook' = r.hook
           /\ pc' = IF IsOk(r.res) THEN "pending" ELSE "done"
           /\ last' = Call("mint", operator, initial_owner, r.hook.inter.ids,
                           st0, [state |-> st0, res |-> r.res], r.res)
    /\ root0' = root
    /\ UNCHANGED <<ledger, root, prior, receipt, reentries>>

\* NFT::transfer
NFTTransfer(owner, recipient, ids) ==
    /\ pc = "idle"
    /\ ledger = "NFT"
    /\ LET st0 == Load(root)
           r == Transfer(st0, owner, recipient, ids)
           o == ResolveOrInit(owner)
           t == ResolveOrInit(recipient)
           out == IF IsOk(o) /\ IsOk(t)
                  THEN TransferClosure(st0, o.val, t.val, ids)
                  ELSE [state |-> st0, res |-> r.res]
       IN  /\ state' = r.state
           /\ hook' = r.hook
           /\ pc' = IF IsOk(r.res) THEN "pending" ELSE "done"
           /\ last' = Call("transfer", owner, recipient, ids, st0, out, r.res)
    /\ root0' = root
    /\ UNCHANGED <<ledger, root, prior, receipt, reentries>>

\* NFT::transaction with a caller's closure; the caller flushes and sets the
\* root when it succeeded
NFTTransaction(owner_id, recipient_id, ids) ==
    /\ pc = "idle"
    /\ ledger = "NFT"
    /\ LET st0 == Load(root)
           out == EagerClosure(st0, owner_id, recipient_id, ids)
           tx == Transaction(st0, out)
       IN  /\ state' = tx.state
           /\ root' = IF IsOk(tx.res) THEN Flush(tx.state) ELSE root
           /\ last' = Call("transaction", IdAddr(owner_id), IdAddr(recipient_id),
                           ids, st0, out, tx.res)
    /\ root0' = root
    /\ pc' = "done"
    /\ UNCHANGED <<ledger, hook, prior, receipt, reentries>>

\* NFT::approve, then flush and set_root
NFTApprove(caller, operator, ids) ==
    /\ pc = "idle"
    /\ ledger = "NFT"
    /\ LET st0 == Load(root)
           r == Approve(st0, caller, operator, ids)
       IN  /\ state' = r.state
           /\ root' = IF IsOk(r.res) THEN Flush(r.state) ELSE root
           /\ last' = Call("approve", caller, operator, ids, st0,
                           [state |-> st0, res |-> r.res], r.res)
    /\ root0' = root
    /\ pc' = "done"
    /\ UNCHANGED <<ledger, hook, prior, receipt, reentries>>

\* the NFT actor's dispatch of "Transfer": the handle's transfer, unwrapped
\* (an error aborts the invocation), then flush and set_root; what transfer
\* handed back is dropped and the method returns no data
InvokeTransfer(caller, to, ids) ==
    /\ pc = "idle"
    /\ ledger = "NFT"
    /\ LET st0 == Load(root)
           r == Transfer(st0, IdAddr(caller), to, ids)
       IN  /\ state' = r.state
           /\ hook' = r.hook
           /\ root' = IF IsOk(r.res) THEN Flush(r.state) ELSE root
           /\ last' = Call("invoke_transfer", IdAddr(caller), to, ids, st0,
                           [state |-> r.state, res |-> r.res], r.res)
    /\ root0' = root
    /\ pc' = "done"
    /\ UNCHANGED <<ledger, prior, receipt, reentries>>

\* the caller flushes the mutated state and sets it as the root before the hook
Persist ==
    /\ pc = "pending"
    /\ root' = Flush(state)
    /\ prior' = Flush(state)
    /\ pc' = "persisted"
    /\ UNCHANGED <<ledger, state, root0, hook, receipt, reentries, last>>

\* ReceiverHook::call: the notification is sent
CallHook ==
    /\ pc = "persisted"
    /\ hook' = HookCall(hook).hook
    /\ pc' = "sent"
    /\ UNCHANGED <<ledger, state, root, root0, prior, receipt, reentries, last>>

\* while the send is outstanding the receiver calls back into the actor: a
\* nested invocation loads the root, transfers, and sets the root
Reenter(caller, recipient, ids) ==
    /\ pc = "sent"
    /\ ledger = "NFT"
    /\ reentries < MaxReenter
    /\ LET t == Transfer(Load(root), IdAddr(caller), recipient, ids)
       IN  /\ IsOk(t.res)
           /\ root' = Flush(t.state)
    /\ reentries' = reentries + 1
    /\ UNCHANGED <<ledger, state, root0, pc, hook, prior, receipt, last>>

\* what FactoryToken's transfer, transfer_from and mint do once the token
\* library has answered with r: on its error they return it; otherwise they
\* save, set the root and call the hook
FactoryRun(op, a1, a2, amount, st0, r, fault) ==
    LET st1 == [st0 EXCEPT !.token = r.token]
        p == FactoryPersistAndCall(st1, r.hook, root, fault)
    IN  IF ~IsOk(r.res)
        THEN /\ state' = st0
             /\ hook' = NoHook
             /\ pc' = "done"
             /\ last' = Call(op, a1, a2, <<amount>>, st0,
                             [state |-> st0, res |-> r.res], r.res)
             /\ UNCHANGED <<root, prior>>
        ELSE /\ state' = st1
             /\ root' = p.root
             /\ prior' = FactorySave(st1)
             /\ hook' = p.hook
             /\ pc' = IF IsOk(p.res) THEN "sent" ELSE "done"
             /\ last' = Call(op, a1, a2, <<amount>>, st0,
                             [state |-> st1, res |-> r.res], p.res)

\* FactoryToken::mint, up to the hook's send
FTMint(caller, initial_owner, amount, fault) ==
    /\ pc = "idle"
    /\ ledger = "FactoryToken"
    /\ LET st0 == FactoryLoad(root)
           chk == FactoryMintCheck(st0, caller)
           r == IF IsOk(chk)
                THEN TokenMint(st0.token, st0.granularity, IdAddr(caller),
                               initial_owner, amount)
                ELSE [res |-> chk, token |-> st0.token, hook |-> NoHook]
       IN  /\ st0.token.supply + amount <= MaxSupply
           /\ FactoryRun("ft_mint", IdAddr(caller), initial_owner, amount,
                         st0, r, fault)
    /\ root0' = root
    /\ UNCHANGED <<ledger, receipt, reentries>>

\* FactoryToken::transfer, up to the hook's send
FTTransfer(caller, to, amount, fault) ==
    /\ pc = "idle"
    /\ ledger = "FactoryToken"
    /\ LET st0 == FactoryLoad(root)
           r == TokenTransfer(st0.token, st0.granularity, IdAddr(caller), to,
                              amount)
       IN  FactoryRun("ft_transfer", IdAddr(caller), to, amount, st0, r, fault)
    /\ root0' = root
    /\ UNCHANGED <<ledger, receipt, reentries>>

\* FactoryToken::transfer_from, up to the hook's send
FTTransferFrom(caller, from, to, amount, fault) ==
    /\ pc = "idle"
    /\ ledger = "FactoryToken"
    /\ LET st0 == FactoryLoad(root)
           r == TokenTransferFrom(st0.token, st0.granularity, IdAddr(caller),
                                  from, to, amount)
       IN  FactoryRun("ft_transfer_from", from, to, amount, st0, r, fault)
    /\ root0' = root
    /\ UNCHANGED <<ledger, receipt, reentries>>

\* FactoryToken::increase_allowance, then the dispatcher's flush_state
FTIncreaseAllowance(caller, operator, delta) ==
    /\ pc = "idle"
    /\ ledger = "FactoryToken"
    /\ LET st0 == FactoryLoad(root)
           r == TokenIncreaseAllowance(st0.token, IdAddr(caller), operator, delta)
           st1 == [st0 EXCEPT !.token = r.token]
       IN  /\ IsOk(r.res) => r.res.val <= MaxAmount
           /\ state' = st1
           /\ root' = IF IsOk(r.res) THEN FactorySave(st1) ELSE root
           /\ last' = Call("ft_increase_allowance", IdAddr(caller), operator,
                           <<delta>>, st0, [state |-> st1, res |-> r.res], r.res)
    /\ root0' = root
    /\ pc' = "done"
    /\ UNCHANGED <<ledger, hook, prior, receipt, reentries>>

\* while the factory token's send is outstanding the receiver calls back
\* into the actor: a nested invocation loads the root, transfers the
\* receiver's tokens, and sets the root
FTReenter(to, amount) ==
    /\ pc = "sent"
    /\ ledger = "FactoryToken"
    /\ reentries < MaxReenter
    /\ LET st0 == FactoryLoad(root)
           t == TokenTransfer(st0.token, st0.granularity, IdAddr(hook.inter.to),
                              to, amount)
       IN  /\ IsOk(t.res)
           /\ root' = FactorySave([st0 EXCEPT !.token = t.token])
    /\ reentries' = reentries + 1
    /\ UNCHANGED <<ledger, state, root0, pc, hook, prior, receipt, last>>

\* mutant: when the receiver reports failure the root and the state in
\* memory are put back
HookReturn_RollsBack(ok) ==
    /\ pc = "sent"
    /\ receipt' = [returned |-> TRUE, ok |-> ok]
    /\ pc' = IF ok THEN "returned" ELSE "failed"
    /\ last' = [last EXCEPT !.hook_res = HookOutcome([returned |-> TRUE, ok |-> ok])]
    /\ root' = IF ok THEN root ELSE root0
    /\ state' = IF ok THEN state ELSE last.pre
    /\ UNCHANGED <<ledger, root0, hook, prior, reentries>>

\* the send returns with the receiver's exit code, and ReceiverHook::call
\* with what it makes of it; on an error the method that called the hook
\* returns it at once
HookReturn(ok) ==
    /\ pc = "sent"
    /\ receipt' = [returned |-> TRUE, ok |-> ok]
    /\ LET out == HookOutcome([returned |-> TRUE, ok |-> ok])
       IN  /\ pc' = IF IsOk(out) THEN "returned" ELSE "failed"
           /\ last' = [last EXCEPT !.hook_res = out]
    /\ UNCHANGED <<ledger, state, root, root0, hook, prior, reentries>>

\* a caller calling the same hook once more
CallHookAgain ==
    /\ pc = "returned"
    /\ hook.called
    /\ hook.calls < MaxHookCalls
    /\ hook' = HookCall(hook).hook
    /\ UNCHANGED <<ledger, state, root, root0, pc, prior, receipt, reentries, last>>

\* NFT::transfer_return / mint_return
NFTReturn ==
    /\ pc = "returned"
    /\ ledger = "NFT"
    /\ LET r == TransferReturn(state, root, hook.inter, prior)
       IN  /\ state' = r.state
           /\ last' = [last EXCEPT !.ret = r.ret, !.old = r.old, !.mem = state]
    /\ pc' = "done"
    /\ UNCHANGED <<ledger, root, root0, hook, prior, receipt, reentries>>

\* FactoryToken::transfer, transfer_from and mint after the hook: reload,
\* then the token library's *_return
FTReturn ==
    /\ pc = "returned"
    /\ ledger = "FactoryToken"
    /\ LET r == FactoryReturn(state, root, prior, hook.inter)
       IN  /\ state' = r.state
           /\ last' = [last EXCEPT !.ret = r.ret, !.mem = state]
    /\ pc' = "done"
    /\ UNCHANGED <<ledger, root, root0, hook, prior, receipt, reentries>>

\* the invocation failed: the host reverts the actor's root
HostRevert ==
    /\ pc = "failed"
    /\ root' = root0
    /\ pc' = "done"
    /\ UNCHANGED <<ledger, state, root0, hook, prior, receipt, reentries, last>>

\* the invocation is over: its handle, hook and intermediates are dropped
EndInvocation ==
    /\ pc = "done"
    /\ pc' = "idle"
    /\ state' = NewState
    /\ root0' = root
    /\ hook' = NoHook
    /\ prior' = root
    /\ receipt' = NoReceipt
    /\ reentries' = 0
    /\ last' = NoCall
    /\ UNCHANGED <<ledger, root>>

\* calls with an address that does not resolve, or that has to be initialised
EdgeCalls ==
    {c \in Addresses \X Addresses :
        c[1] \notin IdAddresses \/ c[2] \notin IdAddresses}

Next ==
    \/ \E operator \in IdAddresses, initial_owner \in IdAddresses, n \in 1 .. MaxMint :
          NFTMint(operator, initial_owner, n)
    \/ \E c \in EdgeCalls : NFTMint(c[1], c[2], 1)
    \/ \E owner \in IdAddresses, recipient \in IdAddresses, ids \in Batches :
          NFTTransfer(owner, recipient, ids)
    \/ \E c \in EdgeCalls, ids \in SingleIds : NFTTransfer(c[1], c[2], ids)
    \/ \E o \in {ALICE_ID, BOB_ID}, ids \in Batches : NFTTransaction(o, BOB_ID, ids)
    \/ \E caller \in Addresses, ids \in SingleIds :
          NFTApprove(caller, IdAddr(BOB_ID), ids)
    \/ \E caller \in FactoryCallers, o \in {IdAddr(ALICE_ID), BlsAddr},
          amount \in Amounts, fault \in Faults :
          FTMint(caller, o, amount, fault)
    \/ \E caller \in FactoryCallers, to \in IdAddresses, amount \in Amounts,
          fault \in Faults :
          FTTransfer(caller, to, amount, fault)
    \/ \E from \in IdAddresses, amount \in Amounts, fault \in Faults :
          FTTransferFrom(BOB_ID, from, IdAddr(BOB_ID), amount, fault)
    \/ \E delta \in 1 .. MaxAmount :
          FTIncreaseAllowance(ALICE_ID, IdAddr(BOB_ID), delta)
    \/ \E to \in IdAddresses, amount \in 1 .. MaxAmount : FTReenter(to, amount)
    \/ FTReturn
    \/ Persist
    \/ CallHook
    \/ \E c \in ActorIDs, r \in IdAddresses, ids \in SingleIds : Reenter(c, r, ids)
    \/ \E ok \in BOOLEAN : HookReturn(ok)
    \/ CallHookAgain
    \/ NFTReturn
    \/ HostRevert
    \/ EndInvocation

Spec == Init /\ [][Next]_vars

----------------------------------------------------------------------------
(* The NFT actor method by method: each invocation loads the state from the
   root, runs one method of the handle, and on success flushes and sets the
   root *)

\* the common shape of the actor's methods: r is what the handle's method made
\* of the loaded state; an error aborts the invocation
Dispatch(op, a1, a2, ids, r) ==
    /\ pc = "idle"
    /\ ledger = "NFT"
    /\ state' = r.state
    /\ root' = IF IsOk(r.res) THEN Flush(r.state) ELSE root
    /\ last' = Call(op, a1, a2, ids, Load(root),
                    [state |-> r.state, res |-> r.res], r.res)
    /\ root0' = root
    /\ pc' = "done"
    /\ UNCHANGED <<ledger, prior, receipt, reentries>>

\* "Mint": one token, minted to the caller; what mint handed back is returned
\* as data
InvokeMint(caller) ==
    LET r == Mint(Load(root), IdAddr(caller), IdAddr(caller), 1)
    IN  /\ Load(root).next_token + 1 <= MaxTokens
        /\ Dispatch("invoke_mint", IdAddr(caller), IdAddr(caller), <<>>, r)
        /\ hook' = r.hook

\* "Revoke": NFT::revoke, then flush and set_root
NFTRevoke(caller, operator, ids) ==
    /\ Dispatch("revoke", caller, operator, ids,
                Revoke(Load(root), caller, operator, ids))
    /\ UNCHANGED hook

\* "ApproveForAll": NFT::approve_for_owner, then flush and set_root
NFTApproveForOwner(owner, operator) ==
    /\ Dispatch("approve_for_owner", owner, operator, <<>>,
                ApproveForOwner(Load(root), owner, operator))
    /\ UNCHANGED hook

\* "RevokeForAll": NFT::revoke_for_all, then flush and set_root
NFTRevokeForAll(owner, operator) ==
    /\ Dispatch("revoke_for_all", owner, operator, <<>>,
                RevokeForAll(Load(root), owner, operator))
    /\ UNCHANGED hook

\* NFT::balance_of on the loaded state; fault is a messaging failure other
\* than an address that does not resolve. Nothing is flushed
NFTBalanceOf(address, fault) ==
    /\ pc = "idle"
    /\ ledger = "NFT"
    /\ LET st0 == Load(root)
           resolved == IF fault THEN SyscallError ELSE ResolveId(address)
       IN  /\ state' = st0
           /\ last' = Call("balance_of", address, address, <<>>, st0,
                           [state |-> st0, res |-> resolved],
                           BalanceOf(st0, resolved))
    /\ root0' = root
    /\ pc' = "done"
    /\ UNCHANGED <<ledger, root, hook, prior, receipt, reentries>>

CallerAddrs == {IdAddr(ALICE_ID), IdAddr(BOB_ID), ActorAddr}
OperatorAddrs == {IdAddr(BOB_ID), ActorAddr}

InitActor == Init /\ ledger = "NFT"

NextActor ==
    \/ \E caller \in {ALICE_ID, BOB_ID} : InvokeMint(caller)
    \/ \E caller \in {ALICE_ID, BOB_ID}, to \in IdAddresses, ids \in Batches :
          InvokeTransfer(caller, to, ids)
    \/ \E caller \in CallerAddrs, operator \in OperatorAddrs, ids \in SingleIds :
          NFTApprove(caller, operator, ids)
    \/ \E caller \in CallerAddrs, operator \in OperatorAddrs, ids \in Batches :
          NFTRevoke(caller, operator, ids)
    \/ \E owner \in CallerAddrs, operator \in OperatorAddrs :
          NFTApproveForOwner(owner, operator)
    \/ \E owner \in CallerAddrs, operator \in OperatorAddrs :
          NFTRevokeForAll(owner, operator)
    \/ \E address \in Addresses, fault \in BOOLEAN : NFTBalanceOf(address, fault)
    \/ EndInvocation

SpecActor == InitActor /\ [][NextActor]_vars

----------------------------------------------------------------------------
(* The factory token with its minter: minting can be disabled, tokens can be
   burnt, and the receiver of a hook may disable minting while it is called *)

\* FactoryToken::disable_mint, after which the caller saves the state and
\* sets the root
FTDisableMint(caller) ==
    /\ pc = "idle"
    /\ ledger = "FactoryToken"
    /\ LET st0 == FactoryLoad(root)
           r == DisableMint(st0, caller)
       IN  /\ state' = r.state
           /\ root' = IF IsOk(r.res) THEN FactorySave(r.state) ELSE root
           /\ last' = Call("ft_disable_mint", IdAddr(caller), IdAddr(caller),
                           <<>>, st0, r, r.res)
    /\ root0' = root
    /\ pc' = "done"
    /\ UNCHANGED <<ledger, hook, prior, receipt, reentries>>

\* FactoryToken::burn, then the dispatcher's flush_state
FTBurn(caller, amount) ==
    /\ pc = "idle"
    /\ ledger = "FactoryToken"
    /\ LET st0 == FactoryLoad(root)
           r == TokenBurn(st0.token, st0.granularity, IdAddr(caller), amount)
           st1 == [st0 EXCEPT !.token = r.token]
       IN  /\ state' = st1
           /\ root' = IF IsOk(r.res) THEN FactorySave(st1) ELSE root
           /\ last' = Call("ft_burn", IdAddr(caller), IdAddr(caller),
                           <<amount>>, st0, [state |-> st1, res |-> r.res], r.res)
    /\ root0' = root
    /\ pc' = "done"
    /\ UNCHANGED <<ledger, hook, prior, receipt, reentries>>

\* while the send is outstanding the receiver, if it is the minter, calls
\* back into the actor and disables minting
FTReenterDisableMint ==
    /\ pc = "sent"
    /\ ledger = "FactoryToken"
    /\ reentries < MaxReenter
    /\ LET r == DisableMint(FactoryLoad(root), hook.inter.to)
       IN  /\ IsOk(r.res)
           /\ root' = FactorySave(r.state)
    /\ reentries' = reentries + 1
    /\ UNCHANGED <<ledger, state, root0, pc, hook, prior, receipt, last>>

InitFactoryToken == Init /\ ledger = "FactoryToken"

NextFactory ==
    \/ \E caller \in FactoryCallers, o \in {IdAddr(ALICE_ID), BlsAddr},
          amount \in Amounts, fault \in Faults :
          FTMint(caller, o, amount, fault)
    \/ \E caller \in FactoryCallers, to \in IdAddresses, amount \in Amounts,
          fault \in Faults :
          FTTransfer(caller, to, amount, fault)
    \/ \E from \in IdAddresses, amount \in Amounts, fault \in Faults :
          FTTransferFrom(BOB_ID, from, IdAddr(BOB_ID), amount, fault)
    \/ \E delta \in 1 .. MaxAmount :
          FTIncreaseAllowance(ALICE_ID, IdAddr(BOB_ID), delta)
    \/ \E caller \in FactoryCallers : FTDisableMint(caller)
    \/ \E caller \in FactoryCallers, amount \in Amounts : FTBurn(caller, amount)
    \/ \E to \in IdAddresses, amount \in 1 .. MaxAmount : FTReenter(to, amount)
    \/ FTReenterDisableMint
    \/ \E ok \in BOOLEAN : HookReturn(ok)
    \/ FTReturn
    \/ HostRevert
    \/ EndInvocation

SpecFactory == InitFactoryToken /\ [][NextFactory]_vars

----------------------------------------------------------------------------
(* The collection over its life: tokens are minted, transferred and burnt,
   and owner_of is asked about any id *)

\* a map without the entry at k
Drop(f, k) == [x \in (DOMAIN f) \ {k} |-> f[x]]

\* the ids of a burn one after the other: each must be a token of the owner,
\* its record is deleted and the owner's balance goes down by one
RECURSIVE BurnLoop(_, _, _, _)
BurnLoop(token_array, owner_map, owner, ids) ==
    IF ids = <<>>
    THEN [res |-> OkRes(0), token_array |-> token_array, owner_map |-> owner_map]
    ELSE LET chk == OwnsToken(token_array, owner, Head(ids))
         IN  IF ~IsOk(chk)
             THEN [res |-> chk, token_array |-> token_array,
                   owner_map |-> owner_map]
             ELSE BurnLoop(Drop(token_array, Head(ids)),
                           Put(owner_map, owner,
                               [owner_map[owner] EXCEPT !.balance = @ - 1]),
                           owner, Tail(ids))

\* mutant: burning the newest token hands its id back to be minted again
BurnTokens_RewindsNextToken(st, owner, ids) ==
    LET b == BurnLoop(st.token_data, st.owner_data, owner, ids)
    IN  IF ~IsOk(b.res) THEN [state |-> st, res |-> b.res]
        ELSE [state |-> [token_data |-> b.token_array,
                         owner_data |-> b.owner_map,
                         next_token |-> IF ids # <<>>
                                           /\ ids[Len(ids)] = st.next_token - 1
                                        THEN st.next_token - 1
                                        ELSE st.next_token,
                         total_supply |-> st.total_supply - Len(ids)],
              res |-> OkRes(GetBalance([owner_data |-> b.owner_map], owner))]

\* mutant: what the loop had deleted when it failed stays deleted
BurnTokens_KeepsPartial(st, owner, ids) ==
    LET b == BurnLoop(st.token_data, st.owner_data, owner, ids)
    IN  IF ~IsOk(b.res)
        THEN [state |-> [st EXCEPT !.token_data = b.token_array,
                                   !.owner_data = b.owner_map],
              res |-> b.res]
        ELSE [state |-> [token_data |-> b.token_array,
                         owner_data |-> b.owner_map,
                         next_token |-> st.next_token,
                         total_supply |-> st.total_supply - Len(ids)],
              res |-> OkRes(GetBalance([owner_data |-> b.owner_map], owner))]

\* NFTState::burn_tokens: the supply goes down by the number burnt, the
\* next id to mint stays; the owner's remaining balance is handed back
BurnTokens(st, owner, ids) ==
    LET b == BurnLoop(st.token_data, st.owner_data, owner, ids)
    IN  IF ~IsOk(b.res) THEN [state |-> st, res |-> b.res]
        ELSE [state |-> [token_data |-> b.token_array,
                         owner_data |-> b.owner_map,
                         next_token |-> st.next_token,
                         total_supply |-> st.total_supply - Len(ids)],
              res |-> OkRes(GetBalance([owner_data |-> b.owner_map], owner))]

\* NFT::burn
Burn(st, owner, ids) == BurnTokens(st, owner, ids)

\* NFTState::get_owner
GetOwner(st, token_id) ==
    IF token_id \in DOMAIN st.token_data
    THEN OkRes(st.token_data[token_id].owner)
    ELSE TokenNotFound(token_id)

\* mutant: an id without a record is answered with no owner, not an error
OwnerOf_NoError(st, token_id) ==
    IF token_id \in DOMAIN st.token_data
    THEN OkRes(st.token_data[token_id].owner)
    ELSE OkRes(0)

\* NFT::owner_of
OwnerOf(st, token_id) == GetOwner(st, token_id)

\* "Burn": NFT::burn with the caller as owner, then flush and set_root
InvokeBurn(caller, ids) ==
    /\ Dispatch("invoke_burn", IdAddr(caller), IdAddr(caller), ids,
                Burn(Load(root), caller, ids))
    /\ UNCHANGED hook

\* NFT::owner_of on the loaded state; nothing is flushed
NFTOwnerOf(token_id) ==
    /\ pc = "idle"
    /\ ledger = "NFT"
    /\ LET st0 == Load(root)
           r == OwnerOf(st0, token_id)
       IN  /\ state' = st0
           /\ last' = Call("owner_of", IdAddr(0), IdAddr(0), <<token_id>>, st0,
                           [state |-> st0, res |-> r], r)
    /\ root0' = root
    /\ pc' = "done"
    /\ UNCHANGED <<ledger, root, hook, prior, receipt, reentries>>

NextCollection ==
    \/ \E caller \in {ALICE_ID, BOB_ID} : InvokeMint(caller)
    \/ \E caller \in {ALICE_ID, BOB_ID}, ids \in Batches : InvokeBurn(caller, ids)
    \/ \E caller \in {ALICE_ID, BOB_ID}, to \in IdAddresses, ids \in SingleIds :
          InvokeTransfer(caller, to, ids)
    \/ \E token_id \in TokenIDs : NFTOwnerOf(token_id)
    \/ EndInvocation

SpecCollection == InitActor /\ [][NextCollection]_vars

----------------------------------------------------------------------------
(* frc46_invoke: the FRC46 methods dispatched on their method number, with
   the flush_state the caller passes in *)

\* the names match_method! compares the method number with, in its order
Frc46Names ==
    <<"Name", "Symbol", "TotalSupply", "BalanceOf", "Allowance",
      "IncreaseAllowance", "DecreaseAllowance", "RevokeAllowance", "Burn",
      "TransferFrom", "Transfer">>

\* names of methods that are not FRC46's
OtherNames == <<"Mint", "DisableMint">>

\* the frc42 method number of a name: distinct names have distinct numbers,
\* none of them 0 (the plain send) or 1 (the constructor)
MethodNumber(name) ==
    LET all == Frc46Names \o OtherNames
    IN  1 + CHOOSE i \in DOMAIN all : all[i] = name

\* method numbers a message can carry, with one that is no name's
MethodNums == 0 .. (Len(Frc46Names) + Len(OtherNames) + 2)

Frc46Numbers == {MethodNumber(Frc46Names[i]) : i \in DOMAIN Frc46Names}

\* Ok(None): no method found
OkNone == [kind |-> "Ok", none |-> TRUE]
\* Ok(Some(block)) of a name or symbol
OkText(s) == [kind |-> "Ok", text |-> s]

\* mutant: an allowance that reaches zero is stored as zero
TokenDecreaseAllowance_StoresZero(ts, owner, operator, delta) ==
    LET o == ResolveOrInit(owner)
        p == ResolveOrInit(operator)
    IN  IF ~IsOk(o) THEN [res |-> o, token |-> ts]
        ELSE IF ~IsOk(p) THEN [res |-> p, token |-> ts]
        ELSE IF TokenAllowance(ts, o.val, p.val) < delta
        THEN [res |-> InsufficientAllowance, token |-> ts]
        ELSE [res |-> OkRes(TokenAllowance(ts, o.val, p.val) - delta),
              token |-> [ts EXCEPT !.allowances =
                            Put(@, <<o.val, p.val>>,
                                TokenAllowance(ts, o.val, p.val) - delta)]]

\* mutant: a decrease by more than the allowance takes it to zero
TokenDecreaseAllowance_Saturates(ts, owner, operator, delta) ==
    LET o == ResolveOrInit(owner)
        p == ResolveOrInit(operator)
        left == IF TokenAllowance(ts, o.val, p.val) < delta THEN 0
                ELSE TokenAllowance(ts, o.val, p.val) - delta
    IN  IF ~IsOk(o) THEN [res |-> o, token |-> ts]
        ELSE IF ~IsOk(p) THEN [res |-> p, token |-> ts]
        ELSE [res |-> OkRes(left),
              token |-> [ts EXCEPT !.allowances =
                            SetOrDrop(@, <<o.val, p.val>>, left)]]

\* Token::decrease_allowance: a decrease by more than the allowance fails, a
\* decrease to zero removes the entry
TokenDecreaseAllowance(ts, owner, operator, delta) ==
    LET o == ResolveOrInit(owner)
        p == ResolveOrInit(operator)
    IN  IF ~IsOk(o) THEN [res |-> o, token |-> ts]
        ELSE IF ~IsOk(p) THEN [res |-> p, token |-> ts]
        ELSE IF TokenAllowance(ts, o.val, p.val) < delta
        THEN [res |-> InsufficientAllowance, token |-> ts]
        ELSE [res |-> OkRes(TokenAllowance(ts, o.val, p.val) - delta),
              token |-> [ts EXCEPT !.allowances =
                            SetOrDrop(@, <<o.val, p.val>>,
                                TokenAllowance(ts, o.val, p.val) - delta)]]

\* Token::revoke_allowance: the entry is removed
TokenRevokeAllowance(ts, owner, operator) ==
    LET o == ResolveOrInit(owner)
        p == ResolveOrInit(operator)
    IN  IF ~IsOk(o) THEN [res |-> o, token |-> ts]
        ELSE IF ~IsOk(p) THEN [res |-> p, token |-> ts]
        ELSE [res |-> OkRes(0),
              token |-> [ts EXCEPT !.allowances =
                            SetOrDrop(@, <<o.val, p.val>>, 0)]]

\* Token::allowance: an address that does not resolve has no allowances
TokenAllowanceOf(ts, owner, operator) ==
    LET o == ResolveId(owner)
        p == ResolveId(operator)
    IN  IF IsOk(o) /\ IsOk(p) THEN OkRes(TokenAllowance(ts, o.val, p.val))
        ELSE OkRes(0)

\* Token::balance_of: an address that does not resolve holds nothing
TokenBalanceOf(ts, address) ==
    LET a == ResolveId(address)
    IN  IF IsOk(a) THEN OkRes(TokenBalance(ts, a.val)) ELSE OkRes(0)

\* the flush_state passed to frc46_invoke: the state is saved and set as the
\* root; saving can fail
FlushState(st, cur_root, fails) ==
    IF fails THEN [res |-> SerializationError, root |-> cur_root]
    ELSE [res |-> OkRes(0), root |-> FactorySave(st)]

\* mutant: a method that matches no name flushes all the same
NoMethod_Flushes(st, cur_root, fails) ==
    [state |-> st, root |-> FlushState(st, cur_root, fails).root,
     res |-> OkNone, op_res |-> OkNone, flushes |-> 1]

\* frc46_invoke's last arm: no method found
NoMethod(st, cur_root, fails) ==
    [state |-> st, root |-> cur_root, res |-> OkNone, op_res |-> OkNone,
     flushes |-> 0]

\* frc46_invoke's arms for Name, Symbol, TotalSupply, BalanceOf and
\* Allowance: the answer is returned, nothing is flushed
ReadOnly(st, cur_root, res) ==
    [state |-> st, root |-> cur_root, res |-> res, op_res |-> res,
     flushes |-> 0]

\* mutant: flush_state is called before the method's result is looked at
Mutating_FlushesAnyway(st, r, cur_root, fails) ==
    LET st1 == [st EXCEPT !.token = r.token]
        f == FlushState(st1, cur_root, fails)
    IN  [state |-> st1, root |-> f.root,
         res |-> IF ~IsOk(r.res) THEN r.res
                 ELSE IF IsOk(f.res) THEN r.res ELSE f.res,
         op_res |-> r.res, flushes |-> 1]

\* frc46_invoke's arms for IncreaseAllowance, DecreaseAllowance,
\* RevokeAllowance and Burn: the method's error is returned at once; after
\* its success flush_state is called, and its error returned
Mutating(st, r, cur_root, fails) ==
    LET st1 == [st EXCEPT !.token = r.token]
        f == FlushState(st1, cur_root, fails)
    IN  IF ~IsOk(r.res)
        THEN [state |-> st1, root |-> cur_root, res |-> r.res,
              op_res |-> r.res, flushes |-> 0]
        ELSE [state |-> st1, root |-> f.root,
              res |-> IF IsOk(f.res) THEN r.res ELSE f.res,
              op_res |-> r.res, flushes |-> 1]

\* frc46_invoke, but for Transfer and TransferFrom: caller is the message's
\* caller, address and amount what its parameters name
Frc46Invoke(method_num, st, cur_root, caller, address, amount, fails) ==
    LET me == IdAddr(caller)
        ts == st.token
    IN  IF method_num = MethodNumber("Name")
        THEN ReadOnly(st, cur_root, OkText(st.name))
        ELSE IF method_num = MethodNumber("Symbol")
        THEN ReadOnly(st, cur_root, OkText(st.symbol))
        ELSE IF method_num = MethodNumber("TotalSupply")
        THEN ReadOnly(st, cur_root, OkRes(ts.supply))
        ELSE IF method_num = MethodNumber("BalanceOf")
        THEN ReadOnly(st, cur_root, TokenBalanceOf(ts, address))
        ELSE IF method_num = MethodNumber("Allowance")
        THEN ReadOnly(st, cur_root, TokenAllowanceOf(ts, address, me))
        ELSE IF method_num = MethodNumber("IncreaseAllowance")
        THEN Mutating(st, TokenIncreaseAllowance(ts, me, address, amount),
                      cur_root, fails)
        ELSE IF method_num = MethodNumber("DecreaseAllowance")
        THEN Mutating(st, TokenDecreaseAllowance(ts, me, address, amount),
                      cur_root, fails)
        ELSE IF method_num = MethodNumber("RevokeAllowance")
        THEN Mutating(st, TokenRevokeAllowance(ts, me, address),
                      cur_root, fails)
        ELSE IF method_num = MethodNumber("Burn")
        THEN Mutating(st, TokenBurn(ts, st.granularity, me, amount),
                      cur_root, fails)
        ELSE NoMethod(st, cur_root, fails)

HookMethods == {MethodNumber("Transfer"), MethodNumber("TransferFrom")}

\* an invocation that frc46_invoke answers without a receiver hook
InvokeFrc46(method_num, caller, address, amount, fails) ==
    /\ pc = "idle"
    /\ ledger = "FactoryToken"
    /\ method_num \notin HookMethods
    /\ LET st0 == FactoryLoad(root)
           r == Frc46Invoke(method_num, st0, root, caller, address, amount,
                            fails)
       IN  /\ TokenAllowance(r.state.token, caller, ResolveId(address).val)
                 <= MaxAmount
           /\ state' = r.state
           /\ root' = r.root
           /\ last' = [Call("frc46_invoke", IdAddr(caller), address,
                            <<amount>>, st0,
                            [state |-> r.state, res |-> r.op_res], r.res)
                          EXCEPT !.method = method_num, !.flushes = r.flushes]
    /\ root0' = root
    /\ pc' = "done"
    /\ UNCHANGED <<ledger, hook, prior, receipt, reentries>>

\* frc46_invoke's arms for Transfer and TransferFrom: the token's own method
\* saves the state and sets the root before its hook; flush_state is not
\* called
InvokeFrc46Transfer(method_num, caller, from, to, amount) ==
    /\ method_num \in HookMethods
    /\ \/ /\ method_num = MethodNumber("Transfer")
          /\ from = IdAddr(caller)
          /\ FTTransfer(caller, to, amount, "none")
       \/ /\ method_num = MethodNumber("TransferFrom")
          /\ FTTransferFrom(caller, from, to, amount, "none")

NextInvoke ==
    \/ \E amount \in 1 .. MaxAmount :
          FTMint(ALICE_ID, IdAddr(ALICE_ID), amount, "none")
    \/ \E method_num \in MethodNums, amount \in Amounts, fails \in BOOLEAN :
          InvokeFrc46(method_num, ALICE_ID, IdAddr(BOB_ID), amount, fails)
    \/ \E method_num \in MethodNums, caller \in FactoryCallers,
          amount \in Amounts :
          InvokeFrc46Transfer(method_num, caller, IdAddr(ALICE_ID),
                              IdAddr(BOB_ID), amount)
    \/ \E ok \in BOOLEAN : HookReturn(ok)
    \/ FTReturn
    \/ HostRevert
    \/ EndInvocation

SpecInvoke == InitFactoryToken /\ [][NextInvoke]_vars

----------------------------------------------------------------------------
(* RuntimeError and its conversion to an exit code *)

\* fvm_sdk's ErrorNumber
ErrorNumbers ==
    {"IllegalArgument", "IllegalOperation", "LimitExceeded", "AssertionFailed",
     "InsufficientFunds", "NotFound", "InvalidHandle", "IllegalCid",
     "IllegalCodec", "Serialization", "Forbidden", "BufferTooSmall", "ReadOnly"}

\* the variants of RuntimeError that carry no error of another library
EncodingError == [kind |-> "Encoding"]
BlockstoreError(e) == [kind |-> "Blockstore", errno |-> e]
StateUpdateError(e) == [kind |-> "StateUpdate", cause |-> e]
DeserializationError == [kind |-> "Deserialization"]

\* errors the environment can make an invocation fail with
EnvironmentErrors ==
    {EncodingError, DeserializationError, SerializationError, NoStateError,
     SyscallError}
      \cup {BlockstoreError(e) : e \in ErrorNumbers}
      \cup {StateUpdateError(e) : e \in {"ActorDeleted", "ReadOnly"}}

\* the conversions of TokenError, StateError, ReceiverHookError and
\* MessagingError that RuntimeError's conversion hands over to
LibraryExitCode(error) ==
    CASE error.kind = "InvalidGranularity" -> "USR_ILLEGAL_ARGUMENT"
      [] error.kind = "InsufficientBalance" -> "USR_INSUFFICIENT_FUNDS"
      [] error.kind = "InsufficientAllowance" -> "USR_FORBIDDEN"
      [] error.kind = "Receiver" -> "RECEIVER_EXIT_CODE"
      [] error.kind = "AlreadyCalled" -> "USR_ASSERTION_FAILED"
      [] error.kind = "AddressNotInitialised" -> "USR_NOT_FOUND"
      [] error.kind = "Syscall" -> "USR_UNSPECIFIED"

LibraryKinds ==
    {"InvalidGranularity", "InsufficientBalance", "InsufficientAllowance",
     "Receiver", "AlreadyCalled", "AddressNotInitialised", "Syscall"}

\* mutant: every failed root update is an illegal state
ExitCodeOf_OneStateUpdate(error) ==
    IF error.kind \in LibraryKinds THEN LibraryExitCode(error)
    ELSE IF error.kind = "Encoding" THEN "USR_SERIALIZATION"
    ELSE IF error.kind = "Blockstore"
    THEN IF error.errno = "IllegalArgument" THEN "USR_ILLEGAL_ARGUMENT"
         ELSE IF error.errno \in {"Forbidden", "IllegalOperation"}
         THEN "USR_FORBIDDEN"
         ELSE IF error.errno = "AssertionFailed" THEN "USR_ASSERTION_FAILED"
         ELSE IF error.errno = "InsufficientFunds" THEN "USR_INSUFFICIENT_FUNDS"
         ELSE IF error.errno \in {"IllegalCid", "NotFound", "InvalidHandle"}
         THEN "USR_NOT_FOUND"
         ELSE IF error.errno \in {"Serialization", "IllegalCodec"}
         THEN "USR_SERIALIZATION"
         ELSE "USR_UNSPECIFIED"
    ELSE IF error.kind = "NoState" THEN "USR_NOT_FOUND"
    ELSE IF error.kind = "StateUpdate" THEN "USR_ILLEGAL_STATE"
    ELSE IF error.kind \in {"Deserialization", "Serialization"}
    THEN "USR_SERIALIZATION"
    ELSE "USR_FORBIDDEN"

\* impl From<&RuntimeError> for ExitCode
ExitCodeOf(error) ==
    IF error.kind \in LibraryKinds THEN LibraryExitCode(error)
    ELSE IF error.kind = "Encoding" THEN "USR_SERIALIZATION"
    ELSE IF error.kind = "Blockstore"
    THEN IF error.errno = "IllegalArgument" THEN "USR_ILLEGAL_ARGUMENT"
         ELSE IF error.errno \in {"Forbidden", "IllegalOperation"}
         THEN "USR_FORBIDDEN"
         ELSE IF error.errno = "AssertionFailed" THEN "USR_ASSERTION_FAILED"
         ELSE IF error.errno = "InsufficientFunds" THEN "USR_INSUFFICIENT_FUNDS"
         ELSE IF error.errno \in {"IllegalCid", "NotFound", "InvalidHandle"}
         THEN "USR_NOT_FOUND"
         ELSE IF error.errno \in {"Serialization", "IllegalCodec"}
         THEN "USR_SERIALIZATION"
         ELSE "USR_UNSPECIFIED"
    ELSE IF error.kind = "NoState" THEN "USR_NOT_FOUND"
    ELSE IF error.kind = "StateUpdate"
    THEN IF error.cause = "ActorDeleted" THEN "USR_ILLEGAL_STATE"
         ELSE "USR_READ_ONLY"
    ELSE IF error.kind \in {"Deserialization", "Serialization"}
    THEN "USR_SERIALIZATION"
    ELSE "USR_FORBIDDEN"

\* the error an invocation has ended with, if any: its hook's, else its own
Outcome == IF ~IsOk(last.hook_res) THEN last.hook_res ELSE last.res

\* an invocation fails on an error of the environment before it has changed
\* anything
Fail(error) ==
    /\ pc = "idle"
    /\ ledger = "FactoryToken"
    /\ state' = FactoryLoad(root)
    /\ last' = Call("fail", IdAddr(0), IdAddr(0), <<>>, FactoryLoad(root),
                    [state |-> FactoryLoad(root), res |-> error], error)
    /\ root0' = root
    /\ pc' = "done"
    /\ UNCHANGED <<ledger, root, hook, prior, receipt, reentries>>

\* the actor ends a failed invocation with the exit code of its error
ExitWith ==
    /\ pc = "done"
    /\ ledger = "FactoryToken"
    /\ ~IsOk(Outcome)
    /\ last.exit = "none"
    /\ last' = [last EXCEPT !.exit = ExitCodeOf(Outcome)]
    /\ UNCHANGED <<ledger, state, root, root0, pc, hook, prior, receipt, reentries>>

NextExit ==
    \/ \E caller \in FactoryCallers, amount \in Amounts, fault \in Faults :
          FTMint(caller, IdAddr(ALICE_ID), amount, fault)
    \/ \E caller \in FactoryCallers, to \in Addresses, amount \in Amounts,
          fault \in Faults :
          FTTransfer(caller, to, amount, fault)
    \/ \E amount \in Amounts :
          FTTransferFrom(BOB_ID, IdAddr(ALICE_ID), IdAddr(BOB_ID), amount, "none")
    \/ \E caller \in FactoryCallers : FTDisableMint(caller)
    \/ \E error \in EnvironmentErrors : Fail(error)
    \/ \E ok \in BOOLEAN : HookReturn(ok)
    \/ FTReturn
    \/ HostRevert
    \/ ExitWith
    \/ EndInvocation

SpecExit == InitFactoryToken /\ [][NextExit]_vars

----------------------------------------------------------------------------
(* Operators: an account approved for a token, or for all of its owner's
   tokens, transfers and burns it in the owner's place *)

NotAuthorized(a, t) == [kind |-> "NotAuthorized", actor |-> a, token_id |-> t]

\* NFTState::approved_for_token: the operator is among the token's approved
\* operators or among its owner's account-level operators
ApprovedForToken(token_array, owner_map, operator, token_id) ==
    IF token_id \notin DOMAIN token_array THEN TokenNotFound(token_id)
    ELSE LET td == token_array[token_id]
         IN  IF \/ operator \in td.operators
                \/ /\ td.owner \in DOMAIN owner_map
                   /\ operator \in owner_map[td.owner].operators
             THEN OkRes(0)
             ELSE NotAuthorized(operator, token_id)

RECURSIVE OperatorTransferLoop(_, _, _, _, _)
OperatorTransferLoop(token_array, owner_map, operator, recipient_id, ids) ==
    IF ids = <<>>
    THEN [res |-> OkRes(0), token_array |-> token_array, owner_map |-> owner_map]
    ELSE LET chk == ApprovedForToken(token_array, owner_map, operator, Head(ids))
         IN  IF ~IsOk(chk)
             THEN [res |-> chk, token_array |-> token_array,
                   owner_map |-> owner_map]
             ELSE LET mt == MakeTransfer(token_array, owner_map, Head(ids),
                                         recipient_id)
                  IN  OperatorTransferLoop(mt.token_array, mt.owner_map,
                                           operator, recipient_id, Tail(ids))

\* NFTState::operator_transfer_tokens: all ids or none
OperatorTransferTokens(st, operator, recipient_id, ids) ==
    LET r == OperatorTransferLoop(st.token_data, st.owner_data, operator,
                                  recipient_id, ids)
    IN  IF IsOk(r.res)
        THEN [res |-> r.res,
              state |-> [st EXCEPT !.token_data = r.token_array,
                                   !.owner_data = r.owner_map]]
        ELSE [res |-> r.res, state |-> st]

\* NFT::transfer_from
TransferFrom(st, operator, recipient, ids) ==
    LET o == ResolveOrInit(operator)
        r == ResolveOrInit(recipient)
    IN  IF ~IsOk(o) THEN [state |-> st, res |-> o, hook |-> NoHook]
        ELSE IF ~IsOk(r) THEN [state |-> st, res |-> r, hook |-> NoHook]
        ELSE LET t == OperatorTransferTokens(st, o.val, r.val, ids)
             IN  IF ~IsOk(t.res)
                 THEN [state |-> t.state, res |-> t.res, hook |-> NoHook]
                 ELSE [state |-> t.state, res |-> t.res,
                       hook |-> NewHook(recipient,
                                        [op |-> "transfer_from", from |-> o.val,
                                         to |-> r.val, ids |-> ids])]

RECURSIVE OperatorBurnLoop(_, _, _, _)
OperatorBurnLoop(token_array, owner_map, operator, ids) ==
    IF ids = <<>>
    THEN [res |-> OkRes(0), token_array |-> token_array, owner_map |-> owner_map]
    ELSE LET chk == ApprovedForToken(token_array, owner_map, operator, Head(ids))
         IN  IF ~IsOk(chk)
             THEN [res |-> chk, token_array |-> token_array,
                   owner_map |-> owner_map]
             ELSE LET owner == token_array[Head(ids)].owner
                  IN  OperatorBurnLoop(
                        Drop(token_array, Head(ids)),
                        Put(owner_map, owner,
                            [owner_map[owner] EXCEPT !.balance = @ - 1]),
                        operator, Tail(ids))

\* NFTState::operator_burn_tokens: all ids or none
OperatorBurnTokens(st, operator, ids) ==
    LET b == OperatorBurnLoop(st.token_data, st.owner_data, operator, ids)
    IN  IF ~IsOk(b.res) THEN [state |-> st, res |-> b.res]
        ELSE [state |-> [token_data |-> b.token_array,
                         owner_data |-> b.owner_map,
                         next_token |-> st.next_token,
                         total_supply |-> st.total_supply - Len(ids)],
              res |-> OkRes(0)]

\* NFT::burn_for
BurnFor(st, operator, ids) == OperatorBurnTokens(st, operator, ids)

\* NFT::transfer_from on the state loaded from the root
NFTTransferFrom(operator, recipient, ids) ==
    /\ pc = "idle"
    /\ ledger = "NFT"
    /\ LET st0 == Load(root)
           r == TransferFrom(st0, operator, recipient, ids)
       IN  /\ state' = r.state
           /\ hook' = r.hook
           /\ pc' = IF IsOk(r.res) THEN "pending" ELSE "done"
           /\ last' = Call("transfer_from", operator, recipient, ids, st0,
                           [state |-> r.state, res |-> r.res], r.res)
    /\ root0' = root
    /\ UNCHANGED <<ledger, root, prior, receipt, reentries>>

\* NFT::burn_for, then flush and set_root
NFTBurnFor(operator, ids) ==
    /\ Dispatch("burn_for", IdAddr(operator), IdAddr(operator), ids,
                BurnFor(Load(root), operator, ids))
    /\ UNCHANGED hook

\* every method of the handle that changes the ledger, called with addresses
\* that resolve, that have to be initialised, and that cannot be
NextLedger ==
    \/ \E operator \in CallerAddrs, initial_owner \in CallerAddrs :
          NFTMint(operator, initial_owner, 1)
    \/ \E owner \in CallerAddrs, recipient \in OperatorAddrs, ids \in Batches :
          NFTTransfer(owner, recipient, ids)
    \/ \E operator \in CallerAddrs, recipient \in OperatorAddrs, ids \in SingleIds :
          NFTTransferFrom(operator, recipient, ids)
    \/ \E caller \in CallerAddrs, operator \in OperatorAddrs, ids \in SingleIds :
          NFTApprove(caller, operator, ids)
    \/ \E caller \in CallerAddrs, ids \in SingleIds :
          NFTRevoke(caller, IdAddr(BOB_ID), ids)
    \/ \E owner \in CallerAddrs, operator \in OperatorAddrs :
          NFTApproveForOwner(owner, operator)
    \/ \E caller \in {ALICE_ID, BOB_ID}, ids \in Batches : InvokeBurn(caller, ids)
    \/ \E ids \in Batches : NFTBurnFor(BOB_ID, ids)
    \/ Persist
    \/ CallHook
    \/ \E ok \in BOOLEAN : HookReturn(ok)
    \/ NFTReturn
    \/ HostRevert
    \/ EndInvocation

SpecLedger == InitActor /\ [][NextLedger]_vars

----------------------------------------------------------------------------
(* Account initialisation: resolve_or_init sends to an address that has no
   id yet, and the operation goes on once that send has returned *)

\* the addresses resolve_or_init has to send to
NeedsInit(address) == ~IsOk(ResolveId(address))

\* NFT::transfer up to the send of initialise_account: the handle holds the
\* state loaded from the root, the send to the recipient is outstanding
NFTTransferStart(owner, recipient, ids) ==
    /\ pc = "idle"
    /\ ledger = "NFT"
    /\ IsOk(ResolveId(owner))
    /\ NeedsInit(recipient)
    /\ state' = Load(root)
    /\ last' = Call("transfer", owner, recipient, ids, Load(root),
                    [state |-> Load(root), res |-> OkRes(0)], OkRes(0))
    /\ root0' = root
    /\ pc' = "initialising"
    /\ UNCHANGED <<ledger, root, hook, prior, receipt, reentries>>

\* while the send of initialise_account is outstanding another invocation of
\* the actor runs: it loads the root, transfers, and sets the root
InitReenter(caller, recipient, ids) ==
    /\ pc = "initialising"
    /\ reentries < MaxReenter
    /\ LET t == Transfer(Load(root), IdAddr(caller), recipient, ids)
       IN  /\ IsOk(t.res)
           /\ root' = Flush(t.state)
    /\ reentries' = reentries + 1
    /\ UNCHANGED <<ledger, state, root0, pc, hook, prior, receipt, last>>

\* NFT::transfer once initialise_account has returned: the transaction runs
\* on the state the handle holds, and the hook is built
NFTTransferResume ==
    /\ pc = "initialising"
    /\ LET r == Transfer(state, last.a1, last.a2, last.ids)
       IN  /\ state' = r.state
           /\ hook' = r.hook
           /\ pc' = IF IsOk(r.res) THEN "pending" ELSE "done"
           /\ last' = Call("transfer", last.a1, last.a2, last.ids, state,
                           [state |-> r.state, res |-> r.res], r.res)
    /\ UNCHANGED <<ledger, root, root0, prior, receipt, reentries>>

NextInitialise ==
    \/ \E caller \in {ALICE_ID, BOB_ID} : InvokeMint(caller)
    \/ \E owner \in IdAddresses, recipient \in IdAddresses, ids \in SingleIds :
          NFTTransfer(owner, recipient, ids)
    \/ \E owner \in IdAddresses, recipient \in {BlsAddr, ActorAddr},
          ids \in SingleIds :
          NFTTransferStart(owner, recipient, ids)
    \/ \E c \in {ALICE_ID, BOB_ID}, r \in IdAddresses, ids \in SingleIds :
          InitReenter(c, r, ids)
    \/ NFTTransferResume
    \/ Persist
    \/ CallHook
    \/ \E c \in ActorIDs, r \in IdAddresses, ids \in SingleIds : Reenter(c, r, ids)
    \/ \E ok \in BOOLEAN : HookReturn(ok)
    \/ NFTReturn
    \/ HostRevert
    \/ EndInvocation

SpecInitialise == InitActor /\ [][NextInitialise]_vars

----------------------------------------------------------------------------
(* The claims *)

Min(S) == CHOOSE x \in S : \A y \in S : x <= y

LastOwner == ResolveOrInit(last.a1)
LastRecipient == ResolveOrInit(last.a2)

\* the latest call is a transfer that got as far as its transaction
TransferRan == last.op = "transfer" /\ IsOk(LastOwner) /\ IsOk(LastRecipient)

\* the token at position i of the batch was, before the call, live and owned
\* by the sender
OwnedBefore(i) ==
    /\ last.ids[i] \in DOMAIN last.pre.token_data
    /\ last.pre.token_data[last.ids[i]].owner = LastOwner.val

\* positions of the batch whose token another account owned before the call
OtherOwned ==
    {i \in DOMAIN last.ids :
        /\ last.ids[i] \in DOMAIN last.pre.token_data
        /\ last.pre.token_data[last.ids[i]].owner # LastOwner.val}

\* positions of the batch whose id was never minted
NeverMinted == {i \in DOMAIN last.ids : last.ids[i] >= last.pre.next_token}

\* positions of the batch that repeat an earlier position's id
Repeats ==
    {i \in DOMAIN last.ids : \E j \in 1 .. (i - 1) : last.ids[j] = last.ids[i]}

\* every id before position i passes the ownership check when the loop
\* reaches it
PrefixPasses(i) ==
    /\ \A j \in 1 .. (i - 1) : OwnedBefore(j)
    /\ \/ LastRecipient.val = LastOwner.val
       \/ \A j, k \in 1 .. (i - 1) : j # k => last.ids[j] # last.ids[k]

\* C1: when the closure of NFT::transaction returns an error, the live state
\* after the call is the state before it (and the error is the closure's),
\* whatever the closure had written into its copy.
C1_FailedTransactionLeavesState ==
    (last.op \in {"transaction", "transfer"} /\ ~IsOk(last.cres))
        => /\ state = last.pre
           /\ last.res = last.cres
           /\ root = Save(last.pre)

C1_Witness ==
    /\ last.op = "transaction"
    /\ ~IsOk(last.cres)
    /\ last.copy # last.pre

\* C2: when the closure of NFT::transaction succeeds, the live state after
\* the call is the private copy as the closure left it and the call returns
\* the closure's value.
C2_SucceededTransactionCommitsCopy ==
    /\ (last.op = "transaction" /\ IsOk(last.cres))
          => (state = last.copy /\ last.res = last.cres)
    /\ (last.op = "transfer" /\ IsOk(last.cres) /\ pc = "pending")
          => (state = last.copy /\ last.res = last.cres)

C2_Witness ==
    /\ last.op = "transaction"
    /\ IsOk(last.cres)
    /\ last.cres.val = 2
    /\ last.copy # last.pre

\* C3 as stated: a transfer whose batch holds an id owned by another account
\* fails with NotOwner naming the sender and the first such id, and changes
\* nothing.
C3_Original ==
    (TransferRan /\ OtherOwned # {})
        => /\ last.res = NotOwner(LastOwner.val, last.ids[Min(OtherOwned)])
           /\ state = last.pre

\* C3 amended: it does so when every id before the first such id passes the
\* ownership check (live, the sender's, and not repeated unless the sender
\* is the recipient); and a transfer that fails changes nothing.
C3_NotOwnerNamesFirstForeignId ==
    /\ (TransferRan /\ OtherOwned # {} /\ PrefixPasses(Min(OtherOwned)))
          => /\ last.res = NotOwner(LastOwner.val, last.ids[Min(OtherOwned)])
             /\ state = last.pre
             /\ root = Save(last.pre)
    /\ (TransferRan /\ OtherOwned # {})
          => (~IsOk(last.res) /\ state = last.pre /\ root = Save(last.pre))

C3_Witness ==
    /\ TransferRan
    /\ OtherOwned # {}
    /\ Min(OtherOwned) > 1
    /\ PrefixPasses(Min(OtherOwned))
    /\ last.res.kind = "NotOwner"
    /\ LastRecipient.val # LastOwner.val

\* C4 as stated: a transfer whose batch holds a never-minted id fails with
\* TokenNotFound naming such an id, and changes nothing.
C4_Original ==
    (TransferRan /\ NeverMinted # {})
        => /\ last.res.kind = "TokenNotFound"
           /\ last.res.token_id \in {last.ids[i] : i \in NeverMinted}
           /\ state = last.pre

\* C4 amended: it fails with TokenNotFound naming the first never-minted id
\* when every id before it passes the ownership check; and in every case the
\* transfer fails and changes nothing.
C4_TokenNotFoundNamesFirstMissingId ==
    /\ (TransferRan /\ NeverMinted # {} /\ PrefixPasses(Min(NeverMinted)))
          => /\ last.res = TokenNotFound(last.ids[Min(NeverMinted)])
             /\ state = last.pre
             /\ root = Save(last.pre)
    /\ (TransferRan /\ NeverMinted # {})
          => (~IsOk(last.res) /\ state = last.pre /\ root = Save(last.pre))

C4_Witness ==
    /\ TransferRan
    /\ NeverMinted # {}
    /\ Min(NeverMinted) > 1
    /\ PrefixPasses(Min(NeverMinted))
    /\ last.res.kind = "TokenNotFound"
    /\ LastRecipient.val # LastOwner.val

\* C5: for any sender and any recipient, a transfer whose batch repeats an
\* id (the ids up to the repetition being live and the sender's) fails with
\* NotOwner naming the sender and the repeated id, and changes nothing.
C5_RepeatedIdRejected ==
    (TransferRan /\ Repeats # {} /\ \A j \in 1 .. Min(Repeats) : OwnedBefore(j))
        => /\ last.res = NotOwner(LastOwner.val, last.ids[Min(Repeats)])
           /\ state = last.pre

\* C6: after a successful transfer of distinct ids from A to another account
\* B, every id of the batch is B's with no approved operator, A's balance is
\* down and B's up by the size of the batch, and the supply is the same.
C6_TransferMovesBatch ==
    (TransferRan /\ IsOk(last.res) /\ pc = "pending" /\ Repeats = {}
        /\ LastOwner.val # LastRecipient.val)
        => /\ \A i \in DOMAIN last.ids :
                /\ last.ids[i] \in DOMAIN state.token_data
                /\ state.token_data[last.ids[i]].owner = LastRecipient.val
                /\ state.token_data[last.ids[i]].operators = {}
           /\ GetBalance(state, LastOwner.val)
                = GetBalance(last.pre, LastOwner.val) - Len(last.ids)
           /\ GetBalance(state, LastRecipient.val)
                = GetBalance(last.pre, LastRecipient.val) + Len(last.ids)
           /\ state.total_supply = last.pre.total_supply

C6_Witness ==
    /\ TransferRan
    /\ IsOk(last.res)
    /\ pc = "pending"
    /\ Repeats = {}
    /\ LastOwner.val # LastRecipient.val
    /\ Len(last.ids) = 2
    /\ \E i \in DOMAIN last.ids : last.pre.token_data[last.ids[i]].operators # {}

\* the latest call has returned the value of its *_return
Returned == pc = "done" /\ last.ret.set

\* C7: the value a mint_return / transfer_return / transfer_from_return hands
\* back is computed from the state stored at the actor's root as it is after
\* the hook returned, re-entrant changes of the root included.
C7_ReturnReadsCurrentRoot ==
    Returned =>
        last.ret = IF ledger = "NFT"
                   THEN StateTransferReturn(Load(root), hook.inter)
                   ELSE TokenReturn(FactoryLoad(root).token, hook.inter)

C7_Witness ==
    /\ Returned
    /\ ledger = "NFT"
    /\ last.op = "transfer"
    /\ reentries > 0
    /\ root # prior
    /\ last.ret # StateTransferReturn(Load(prior), hook.inter)

\* C8: reload_if_changed(expected) leaves the state in memory alone and hands
\* back nothing when the root is expected; otherwise the state in memory
\* becomes the one loaded from the root and the previous one is handed back.
\* When the state in memory had been flushed to expected, it is afterwards
\* the state stored at the root. FactoryToken::reload changes the state in
\* the same way.
C8_ReloadIfChanged ==
    Returned =>
        /\ (root = prior) => (state = last.mem)
        /\ (root # prior) =>
              state = (IF ledger = "NFT" THEN Load(root) ELSE FactoryLoad(root))
        /\ ledger = "NFT" =>
              /\ (root = prior) => ~last.old.some
              /\ (root # prior) => last.old = [some |-> TRUE, val |-> last.mem]
              /\ (Save(last.mem) = prior) => (state = Load(root))
        /\ ledger = "FactoryToken" =>
              ((FactorySave(last.mem) = prior) => (state = FactoryLoad(root)))

C8_Witness ==
    /\ Returned
    /\ ledger = "NFT"
    /\ root # prior
    /\ Save(last.mem) = prior
    /\ last.old.some
    /\ last.old.val # state

\* C9: while the hook of a FactoryToken transfer, transfer_from or mint is
\* outstanding, the root holds the state the operation left (until a
\* re-entrant call replaces it); and a call whose save or set_root failed
\* has not called the hook.
C9_RootSetBeforeHook ==
    ledger = "FactoryToken" =>
        /\ (pc = "sent" /\ reentries = 0) =>
              /\ hook.sends = 1
              /\ root = FactorySave(last.copy)
              /\ root = prior
              /\ state = last.copy
              /\ last.copy.token # last.pre.token =>
                    FactoryLoad(root).token # last.pre.token
        /\ hook.sends > 0 => prior = FactorySave(last.copy)
        /\ last.res \in {SerializationError, NoStateError} =>
              /\ hook.calls = 0
              /\ hook.sends = 0
              /\ root = root0

\* the receiver, which had nothing before the transfer, has spent in a
\* re-entrant call what the transfer gave it
C9_Witness ==
    /\ ledger = "FactoryToken"
    /\ pc = "sent"
    /\ reentries = 1
    /\ last.op = "ft_transfer"
    /\ hook.inter.from # hook.inter.to
    /\ TokenBalance(last.pre.token, hook.inter.to) = 0
    /\ TokenBalance(last.copy.token, hook.inter.to) > 0
    /\ TokenBalance(FactoryLoad(root).token, hook.inter.to) = 0

\* C10: of the calls made on one receiver hook the first, and only the
\* first, sends the notification and marks the hook as called; every later
\* call fails.
C10_HookCalledOnce ==
    /\ hook.sends = (IF hook.calls >= 1 THEN 1 ELSE 0)
    /\ hook.failed = hook.calls - hook.sends
    /\ hook.called <=> (hook.calls >= 1)

C10_Witness ==
    /\ hook.calls >= 2
    /\ hook.sends = 1
    /\ hook.failed = hook.calls - 1

\* the latest operation produced a receiver hook and has completed with
\* success
Completed ==
    /\ pc = "done"
    /\ hook.live
    /\ IsOk(last.res)
    /\ IsOk(last.hook_res)

\* C11: an operation that produced a receiver hook completes with success
\* only after the hook has sent its notification, once.
C11_HookSentBeforeCompletion == Completed => hook.sends = 1

\* the part of C11 that is about the factory token
C11_FactoryHookSent == (Completed /\ ledger = "FactoryToken") => hook.sends = 1

\* C12: balance_of changes nothing; for an address that does not resolve, and
\* for an account without a record, it answers 0; a messaging error of
\* another kind is handed on as the error.
C12_BalanceOfUnresolvedIsZero ==
    last.op = "balance_of" =>
        /\ state = last.pre
        /\ root = Save(last.pre)
        /\ root = root0
        /\ last.cres = AddressNotInitialised(last.a1) => last.res = OkRes(0)
        /\ IsOk(last.cres) =>
              last.res = OkRes(IF last.cres.val \in DOMAIN last.pre.owner_data
                               THEN last.pre.owner_data[last.cres.val].balance
                               ELSE 0)
        /\ last.cres = SyscallError => last.res = SyscallError

C12_Witness ==
    /\ last.op = "balance_of"
    /\ last.cres = AddressNotInitialised(last.a1)
    /\ last.res = OkRes(0)
    /\ last.pre.total_supply > 0

RevokeRan == last.op \in {"revoke", "revoke_for_all"}
RevokeCaller == ResolveId(last.a1)
RevokeOperator == ResolveId(last.a2)

\* the operator of the latest revoke resolves and is not approved where the
\* revoke looks: on the named tokens, or on the caller's account
NeverApproved ==
    /\ IsOk(RevokeOperator)
    /\ IsOk(RevokeCaller)
    /\ IF last.op = "revoke"
       THEN \A i \in DOMAIN last.ids :
               last.ids[i] \in DOMAIN last.pre.token_data =>
                   RevokeOperator.val \notin
                       last.pre.token_data[last.ids[i]].operators
       ELSE RevokeCaller.val \in DOMAIN last.pre.owner_data =>
               RevokeOperator.val \notin
                   last.pre.owner_data[RevokeCaller.val].operators

\* the latest revoke, applied once more to the state it left
RevokedAgain ==
    IF last.op = "revoke" THEN Revoke(state, last.a1, last.a2, last.ids)
    ELSE RevokeForAll(state, last.a1, last.a2)

\* C13 as stated: a revoke or revoke_for_all whose operator does not resolve,
\* or was never approved, succeeds and changes nothing.
C13_Original ==
    (RevokeRan /\ (~IsOk(RevokeOperator) \/ NeverApproved))
        => (IsOk(last.res) /\ state = last.pre)

\* C13 amended: it does so when the caller's address resolves and, for a
\* never-approved operator of revoke, every named id is a live token of the
\* caller; a revoke that fails changes nothing; a revoke that succeeded,
\* applied again, succeeds and leaves the state as it is.
C13_RevokeMissingOperatorIsNoOp ==
    RevokeRan =>
        /\ (IsOk(RevokeCaller) /\ ~IsOk(RevokeOperator))
              => (IsOk(last.res) /\ state = last.pre /\ root = Save(last.pre))
        /\ (/\ NeverApproved
            /\ last.op = "revoke" =>
                  \A i \in DOMAIN last.ids :
                      IsOk(OwnsToken(last.pre.token_data, RevokeCaller.val,
                                     last.ids[i])))
              => (IsOk(last.res) /\ state = last.pre /\ root = Save(last.pre))
        /\ ~IsOk(last.res) => (state = last.pre /\ root = Save(last.pre))
        /\ IsOk(last.res) =>
              (IsOk(RevokedAgain.res) /\ RevokedAgain.state = state)

C13_Witness ==
    /\ last.op = "revoke"
    /\ IsOk(RevokeCaller)
    /\ ~IsOk(RevokeOperator)
    /\ last.ids # <<>>
    /\ \E t \in DOMAIN last.pre.token_data :
          /\ last.pre.token_data[t].operators # {}
          /\ \E i \in DOMAIN last.ids : last.ids[i] = t
    /\ IsOk(last.res)
    /\ state = last.pre

\* the latest call is the actor's Transfer, and it succeeded
Transferred == last.op = "invoke_transfer" /\ IsOk(last.res)
BatchIds == {last.ids[i] : i \in DOMAIN last.ids}

\* C20: a transfer leaves every account's account-level operators as they
\* were (an account that gets its first record has none), leaves the tokens
\* outside the batch as they were, and clears the operators of the tokens
\* in the batch.
C20_TransferKeepsOtherApprovals ==
    Transferred =>
        /\ \A a \in DOMAIN last.pre.owner_data :
              /\ a \in DOMAIN state.owner_data
              /\ state.owner_data[a].operators = last.pre.owner_data[a].operators
        /\ \A a \in (DOMAIN state.owner_data) \ (DOMAIN last.pre.owner_data) :
              state.owner_data[a].operators = {}
        /\ \A t \in (DOMAIN last.pre.token_data) \ BatchIds :
              state.token_data[t] = last.pre.token_data[t]
        /\ \A t \in BatchIds : state.token_data[t].operators = {}
        /\ root = Save(state)

C20_Witness ==
    /\ Transferred
    /\ LastOwner.val # LastRecipient.val
    /\ LastOwner.val \in DOMAIN last.pre.owner_data
    /\ LastRecipient.val \in DOMAIN last.pre.owner_data
    /\ last.pre.owner_data[LastOwner.val].operators # {}
    /\ last.pre.owner_data[LastRecipient.val].operators # {}
    /\ \E t \in BatchIds : last.pre.token_data[t].operators # {}
    /\ \E t \in (DOMAIN last.pre.token_data) \ BatchIds :
          last.pre.token_data[t].operators # {}

\* the latest call is a FactoryToken::mint, and this was its amount
MintCalled == last.op = "ft_mint"
MintAmount == last.ids[1]

\* the latest call left balances, supply and root alone and called no hook
NothingDone ==
    /\ pc = "done"
    /\ state = last.pre
    /\ root = FactorySave(last.pre)
    /\ root = root0
    /\ ~hook.live
    /\ hook.calls = 0
    /\ hook.sends = 0
    /\ ~last.ret.set

\* C14: with no minter set, FactoryToken::mint fails with MintingDisabled for
\* every caller, changes no balance, supply or root, and calls no hook.
C14_DisabledMintFails ==
    (MintCalled /\ ~last.pre.minter.some)
        => (last.res = MintingDisabled /\ NothingDone)

C14_Witness ==
    /\ MintCalled
    /\ ~last.pre.minter.some
    /\ last.a1 = IdAddr(ALICE_ID)
    /\ last.pre.token.supply > 0
    /\ MintAmount > 0
    /\ ValidAmount(last.pre.granularity, MintAmount)
    /\ last.res = MintingDisabled

\* C15: with a minter set, FactoryToken::mint called by any other account
\* fails with AddressNotAuthorized, changes no balance, supply or root, and
\* calls no hook.
C15_UnauthorisedMintFails ==
    (MintCalled /\ last.pre.minter.some
        /\ last.a1 # IdAddr(last.pre.minter.val))
        => (last.res = AddressNotAuthorized /\ NothingDone)

C15_Witness ==
    /\ MintCalled
    /\ last.pre.minter = SomeMinter(ALICE_ID)
    /\ last.a1 = IdAddr(BOB_ID)
    /\ last.pre.token.supply > 0
    /\ MintAmount > 0
    /\ ValidAmount(last.pre.granularity, MintAmount)
    /\ last.res = AddressNotAuthorized

MinterAbsent(cid) == ~FactoryLoad(cid).minter.some

\* C16: once the state at the root has no minter, no step gives it one
\* again, a handle that reloads after its hook has none either, and no mint
\* that starts succeeds. (The one step set aside is the host discarding an
\* invocation that failed and that had started with a minter: what its
\* receiver did while it ran is discarded with it.)
C16_DisableMintIsPermanent ==
    [][(/\ ledger = "FactoryToken"
        /\ MinterAbsent(root)
        /\ pc = "failed" => MinterAbsent(root0))
          => /\ MinterAbsent(root')
             /\ (pc' = "done" /\ last'.ret.set) => ~state'.minter.some
             /\ (pc = "idle" /\ last'.op = "ft_mint") => ~IsOk(last'.res)]_vars

\* minting was disabled by the receiver while the hook was outstanding, and
\* the handle has reloaded
C16_Witness ==
    /\ ledger = "FactoryToken"
    /\ Returned
    /\ reentries > 0
    /\ last.pre.minter.some
    /\ MinterAbsent(root)
    /\ ~state.minter.some

\* C17: a FactoryToken::mint that got as far as its hook has raised the
\* supply and the owner's balance by the amount; the MintReturn it hands back
\* holds the owner's balance and the supply as they are at the root then
\* (the balance before plus the amount when nothing re-entered).
C17_MintCreditsOwner ==
    MintCalled =>
        /\ (pc = "sent" /\ reentries = 0) =>
              /\ state.token.supply = last.pre.token.supply + MintAmount
              /\ TokenBalance(state.token, hook.inter.to)
                    = TokenBalance(last.pre.token, hook.inter.to) + MintAmount
              /\ FactoryLoad(root).token = state.token
        /\ Returned =>
              /\ last.a1 = IdAddr(last.pre.minter.val)
              /\ last.ret.to_balance
                    = TokenBalance(FactoryLoad(root).token, hook.inter.to)
              /\ last.ret.to_balance = TokenBalance(state.token, hook.inter.to)
              /\ last.ret.supply = last.pre.token.supply + MintAmount
              /\ state.token.supply = last.pre.token.supply + MintAmount
              /\ reentries = 0 =>
                    last.ret.to_balance
                      = TokenBalance(last.pre.token, hook.inter.to) + MintAmount

C17_Witness ==
    /\ MintCalled
    /\ Returned
    /\ reentries = 0
    /\ MintAmount > 0
    /\ TokenBalance(last.pre.token, hook.inter.to) > 0
    /\ last.ret.to_balance > MintAmount

\* C18: a FactoryToken transfer, transfer_from or mint hands back its return
\* value only when the hook call succeeded; when the receiver reported
\* failure the operation ends with the hook's error and no return value.
C18_HookFailureFailsOperation ==
    ledger = "FactoryToken" =>
        /\ last.ret.set =>
              /\ receipt.returned
              /\ receipt.ok
              /\ IsOk(last.hook_res)
              /\ hook.sends = 1
        /\ (receipt.returned /\ ~receipt.ok) =>
              /\ ~last.ret.set
              /\ last.hook_res = ReceiverError
              /\ pc \in {"failed", "done"}

C18_Witness ==
    /\ ledger = "FactoryToken"
    /\ last.op \in {"ft_transfer", "ft_transfer_from", "ft_mint"}
    /\ receipt.returned
    /\ ~receipt.ok
    /\ pc = "done"
    /\ ~last.ret.set
    /\ last.hook_res = ReceiverError

\* C19: when the hook call has failed, and before anyone restores the root,
\* the state in memory is the mutated one and the root is the cid it was
\* saved to before the call (unless the receiver re-entered and set another).
C19_NoRollbackOnHookFailure ==
    (ledger = "FactoryToken" /\ pc = "failed") =>
        /\ state = last.copy
        /\ prior = FactorySave(last.copy)
        /\ reentries = 0 => root = prior
        /\ (reentries = 0 /\ last.copy # last.pre) => root # root0

C19_Witness ==
    /\ ledger = "FactoryToken"
    /\ pc = "failed"
    /\ reentries = 0
    /\ last.op = "ft_transfer"
    /\ last.copy.token # last.pre.token
    /\ root = FactorySave(last.copy)
    /\ root # root0

\* the latest call is the actor's "Mint" / "Burn", and it succeeded
MintInvoked == last.op = "invoke_mint" /\ IsOk(last.res)
BurnInvoked == last.op = "invoke_burn" /\ IsOk(last.res)

\* ids that were minted and have no record any more
BurntIds(st) == {t \in 0 .. st.next_token - 1 : t \notin DOMAIN st.token_data}

\* C21: in every step of the collection the next id to mint never goes down,
\* every id that gains a record is at or above what the next id was (so above
\* every id minted before and never one that was burnt), every id with a
\* record is below the next id, the ids a mint hands back are those new
\* records, and the ids of a burn have no record afterwards.
C21_IdsNeverReused ==
    [][ledger = "NFT" =>
         LET a == Load(root)
             b == Load(root')
         IN  /\ b.next_token >= a.next_token
             /\ \A t \in (DOMAIN b.token_data) \ (DOMAIN a.token_data) :
                   t >= a.next_token /\ t < b.next_token
             /\ \A t \in BurntIds(a) : t \in BurntIds(b)
             /\ \A t \in DOMAIN b.token_data : t < b.next_token
             /\ (pc = "idle" /\ last'.op = "invoke_mint" /\ IsOk(last'.res)) =>
                   /\ hook'.inter.ids # <<>>
                   /\ \A i \in DOMAIN hook'.inter.ids :
                         /\ hook'.inter.ids[i] >= a.next_token
                         /\ hook'.inter.ids[i] \notin DOMAIN a.token_data
                         /\ hook'.inter.ids[i] \in DOMAIN b.token_data
             /\ (pc = "idle" /\ last'.op = "invoke_burn" /\ IsOk(last'.res)) =>
                   \A i \in DOMAIN last'.ids :
                      last'.ids[i] \in BurntIds(b)]_vars

\* a token was minted although an earlier one had been burnt: it has a
\* higher id, and the burnt id still has no owner
C21_Witness ==
    /\ ledger = "NFT"
    /\ MintInvoked
    /\ BurntIds(last.pre) # {}
    /\ \A t \in BurntIds(last.pre) :
          /\ t \notin DOMAIN Load(root).token_data
          /\ \A i \in DOMAIN hook.inter.ids : hook.inter.ids[i] > t

\* the latest call is owner_of, asked about this id
OwnerOfAsked == last.op = "owner_of"
AskedId == last.ids[1]

\* C22: owner_of fails with TokenNotFound for an id not yet minted and for an
\* id that was burnt, and hands back the owner for every id that has one.
C22_OwnerOfMissingIsTokenNotFound ==
    OwnerOfAsked =>
        /\ AskedId >= last.pre.next_token => last.res = TokenNotFound(AskedId)
        /\ AskedId \in BurntIds(last.pre) => last.res = TokenNotFound(AskedId)
        /\ AskedId \in DOMAIN last.pre.token_data =>
              /\ last.res = OkRes(last.pre.token_data[AskedId].owner)
              /\ last.res.val \in {ALICE_ID, BOB_ID}
              /\ GetBalance(last.pre, last.res.val) > 0
        /\ root = root0
        /\ state = last.pre

\* owner_of was asked about a burnt id while another token was live
C22_Witness ==
    /\ OwnerOfAsked
    /\ AskedId \in BurntIds(last.pre)
    /\ DOMAIN last.pre.token_data # {}
    /\ last.res = TokenNotFound(AskedId)

\* C23: loading what a flush wrote gives the state that was flushed, with its
\* balances, owners, approvals and supply, for the NFT state and for the
\* factory token's; and flushing a state that was loaded and not changed
\* gives the content address it was loaded from.
C23_FlushLoadRoundTrip ==
    /\ ledger = "NFT" =>
          /\ Load(Flush(state)) = state
          /\ Flush(Load(root)) = root
          /\ pc = "persisted" => (root = Flush(state) /\ Load(root) = state)
    /\ (ledger = "FactoryToken" /\ pc # "idle") =>
          /\ FactoryLoad(FactorySave(state)) = state
          /\ FactorySave(FactoryLoad(root)) = root
          /\ (pc = "sent" /\ reentries = 0) =>
                (root = FactorySave(state) /\ FactoryLoad(root) = state)

\* a state with tokens, balances and an approved operator was flushed and
\* set as the root
C23_Witness ==
    /\ ledger = "NFT"
    /\ pc = "persisted"
    /\ state.total_supply > 0
    /\ \E t \in DOMAIN state.token_data : state.token_data[t].operators # {}
    /\ \E o \in DOMAIN state.owner_data : state.owner_data[o].balance > 0
    /\ Load(root) = state

\* the latest call went through frc46_invoke on this method's number
Invoked(name) == last.op = "frc46_invoke" /\ last.method = MethodNumber(name)

\* the pair of the latest allowance call, and its allowance before the call
AllowancePair == <<ResolveId(last.a1).val, ResolveId(last.a2).val>>
AllowanceBefore == TokenAllowance(last.pre.token, AllowancePair[1], AllowancePair[2])
AllowanceDelta == last.ids[1]

\* C24: a decrease_allowance by exactly the allowance removes the entry of
\* the pair, in memory and (once flushed) at the root, and an allowance query
\* on it gives zero, as on a token state where the pair never had one.
C24_DecreaseToZeroRemovesEntry ==
    (Invoked("DecreaseAllowance") /\ AllowanceDelta = AllowanceBefore) =>
        /\ AllowancePair \notin DOMAIN state.token.allowances
        /\ TokenAllowanceOf(state.token, last.a1, last.a2) = OkRes(0)
        /\ TokenAllowanceOf(state.token, last.a1, last.a2)
              = TokenAllowanceOf(NewTokenState, last.a1, last.a2)
        /\ IsOk(last.res) =>
              /\ last.res = OkRes(0)
              /\ AllowancePair \notin DOMAIN FactoryLoad(root).token.allowances
              /\ TokenAllowanceOf(FactoryLoad(root).token, last.a1, last.a2)
                    = OkRes(0)

C24_Witness ==
    /\ Invoked("DecreaseAllowance")
    /\ AllowanceBefore > 0
    /\ AllowanceDelta = AllowanceBefore
    /\ IsOk(last.res)
    /\ AllowancePair \in DOMAIN last.pre.token.allowances
    /\ AllowancePair \notin DOMAIN FactoryLoad(root).token.allowances

\* C25: a decrease_allowance by more than the allowance fails with
\* InsufficientAllowance and changes nothing; a successful increase adds its
\* amount and a successful decrease takes its amount off; no allowance at the
\* root is ever below zero.
C25_AllowanceNeverNegative ==
    /\ ledger = "FactoryToken" =>
          \A k \in DOMAIN FactoryLoad(root).token.allowances :
             FactoryLoad(root).token.allowances[k] > 0
    /\ (Invoked("DecreaseAllowance") /\ AllowanceDelta > AllowanceBefore) =>
          /\ last.res = InsufficientAllowance
          /\ state = last.pre
          /\ root = root0
          /\ TokenAllowance(FactoryLoad(root).token, AllowancePair[1],
                            AllowancePair[2]) = AllowanceBefore
    /\ (Invoked("DecreaseAllowance") /\ AllowanceDelta <= AllowanceBefore) =>
          TokenAllowance(state.token, AllowancePair[1], AllowancePair[2])
             = AllowanceBefore - AllowanceDelta
    /\ Invoked("IncreaseAllowance") =>
          /\ TokenAllowance(state.token, AllowancePair[1], AllowancePair[2])
                = AllowanceBefore + AllowanceDelta
          /\ IsOk(last.res) => last.res = OkRes(AllowanceBefore + AllowanceDelta)

C25_Witness ==
    /\ Invoked("DecreaseAllowance")
    /\ AllowanceBefore > 0
    /\ AllowanceDelta > AllowanceBefore
    /\ last.res = InsufficientAllowance
    /\ TokenAllowance(FactoryLoad(root).token, AllowancePair[1],
                      AllowancePair[2]) = AllowanceBefore

\* the latest call moves value, and its amount is no multiple of the
\* granularity
ValueOps == {"ft_mint", "ft_transfer", "ft_transfer_from", "ft_burn"}
BadAmount ==
    /\ last.op \in ValueOps
    /\ last.ids[1] % last.pre.granularity # 0

\* every balance and the supply at the root are multiples of the granularity
AllMultiples ==
    LET st == FactoryLoad(root)
    IN  /\ st.token.supply % st.granularity = 0
        /\ \A o \in DOMAIN st.token.balances :
              st.token.balances[o] % st.granularity = 0

\* C26 as stated: every mint, transfer, transfer_from and burn of such an
\* amount fails with InvalidGranularity and changes nothing.
C26_Original ==
    BadAmount =>
        /\ last.res = InvalidGranularity
        /\ state = last.pre
        /\ root = root0

\* C26: a mint, transfer, transfer_from or burn of an amount that is no
\* multiple of the granularity fails and changes no balance, supply or root
\* and calls no hook; it fails with InvalidGranularity, except that a mint is
\* first refused for its caller (AddressNotAuthorized, MintingDisabled) when
\* that applies. Every balance and the supply stay multiples of the
\* granularity.
C26_BadAmountRejected ==
    /\ BadAmount =>
          /\ ~IsOk(last.res)
          /\ (last.op # "ft_mint"
                \/ IsOk(FactoryMintCheck(last.pre, ResolveId(last.a1).val)))
                => last.res = InvalidGranularity
          /\ (last.op = "ft_mint"
                /\ ~IsOk(FactoryMintCheck(last.pre, ResolveId(last.a1).val)))
                => last.res = FactoryMintCheck(last.pre, ResolveId(last.a1).val)
          /\ state = last.pre
          /\ root = root0
          /\ ~hook.live
          /\ pc = "done"
    /\ ledger = "FactoryToken" => AllMultiples

\* a transfer of one token of a supply that comes in twos was rejected
C26_Witness ==
    /\ BadAmount
    /\ last.op = "ft_transfer"
    /\ last.pre.granularity = 2
    /\ last.pre.token.supply > 0
    /\ last.res = InvalidGranularity
    /\ root = root0

\* C27: frc46_invoke on a method number that is none of the FRC46 names'
\* answers Ok(None) and nothing else happens: no token method runs,
\* flush_state is not called, state and root are as they were. A number that
\* is one of the names' is never answered with Ok(None).
C27_UnknownMethodIsNone ==
    last.op = "frc46_invoke" =>
        /\ last.method \notin Frc46Numbers =>
              /\ last.res = OkNone
              /\ last.flushes = 0
              /\ state = last.pre
              /\ root = root0
              /\ ~hook.live
        /\ last.method \in Frc46Numbers => last.res # OkNone

\* a method number that is another method's, and one that is no method's
C27_Witness ==
    /\ last.op = "frc46_invoke"
    /\ last.method \in {MethodNumber("Mint"), 0}
    /\ last.res = OkNone
    /\ last.pre.token.supply > 0
    /\ last.ids[1] > 0

MutatingNumbers ==
    {MethodNumber(n) : n \in {"IncreaseAllowance", "DecreaseAllowance",
                              "RevokeAllowance", "Burn"}}
ReadOnlyNumbers ==
    {MethodNumber(n) : n \in {"Name", "Symbol", "TotalSupply", "BalanceOf",
                              "Allowance"}}

\* C28: for IncreaseAllowance, DecreaseAllowance, RevokeAllowance and Burn
\* flush_state is called once, after the method and on the state it left, when
\* the method succeeded, and not at all when it returned an error; it is not
\* called for the read-only methods, nor for Transfer and TransferFrom, which
\* have saved the state and set the root themselves when their hook is sent.
C28_FlushOnceAfterSuccess ==
    /\ (last.op = "frc46_invoke" /\ last.method \in MutatingNumbers) =>
          /\ IsOk(last.cres) =>
                /\ last.flushes = 1
                /\ state = last.copy
                /\ IsOk(last.res) => root = FactorySave(state)
                /\ ~IsOk(last.res) => root = root0
          /\ ~IsOk(last.cres) =>
                /\ last.flushes = 0
                /\ last.res = last.cres
                /\ root = root0
    /\ (last.op = "frc46_invoke" /\ last.method \in ReadOnlyNumbers) =>
          /\ last.flushes = 0
          /\ IsOk(last.res)
          /\ state = last.pre
          /\ root = root0
    /\ last.op \in {"ft_transfer", "ft_transfer_from"} =>
          /\ last.flushes = 0
          /\ pc = "sent" => (root = FactorySave(state) /\ prior = root)

\* a burn went through the dispatcher and was flushed
C28_Witness ==
    /\ last.op = "frc46_invoke"
    /\ last.method = MethodNumber("Burn")
    /\ last.ids[1] > 0
    /\ IsOk(last.res)
    /\ last.flushes = 1
    /\ root = FactorySave(state)
    /\ root # root0

\* the invocation has ended with this error and it has been converted
ExitedWith(error) == last.exit # "none" /\ Outcome = error

\* C29: every error an invocation ends with is converted to an exit code
\* that is not OK; MintingDisabled and AddressNotAuthorized become
\* USR_FORBIDDEN, a state update refused because the actor is deleted
\* USR_ILLEGAL_STATE, and one refused because the context is read-only
\* USR_READ_ONLY.
C29_ErrorsHaveFailureExitCodes ==
    last.exit # "none" =>
        /\ ~IsOk(Outcome)
        /\ last.exit = ExitCodeOf(Outcome)
        /\ last.exit # "OK"
        /\ Outcome \in {MintingDisabled, AddressNotAuthorized}
              => last.exit = "USR_FORBIDDEN"
        /\ Outcome = StateUpdateError("ActorDeleted")
              => last.exit = "USR_ILLEGAL_STATE"
        /\ Outcome = StateUpdateError("ReadOnly") => last.exit = "USR_READ_ONLY"
        /\ Outcome = NoStateError => last.exit = "USR_NOT_FOUND"

\* a state update in a read-only context has been converted
C29_Witness ==
    /\ ExitedWith(StateUpdateError("ReadOnly"))
    /\ last.exit = "USR_READ_ONLY"
    /\ FactoryLoad(root).token.supply > 0

\* C30: when NFT::transfer has handed back its hook the tokens are the
\* recipient's in the handle's state, although the hook has not been called;
\* the actor's "Transfer", which never calls it, flushes exactly that state,
\* and no notification has been sent.
C30_TransferDoneBeforeHook ==
    (last.op = "invoke_transfer" /\ IsOk(last.res)) =>
        /\ hook.live
        /\ ~hook.called
        /\ hook.calls = 0
        /\ hook.sends = 0
        /\ \A i \in DOMAIN last.ids :
              /\ state.token_data[last.ids[i]].owner = hook.inter.to
              /\ Load(root).token_data[last.ids[i]].owner = hook.inter.to
        /\ GetBalance(state, hook.inter.to)
              = GetBalance(last.pre, hook.inter.to)
                  + (IF hook.inter.to = hook.inter.from THEN 0 ELSE Len(last.ids))
        /\ root = Flush(state)
        /\ pc = "done"

\* Alice's token has become Bob's at the root and no notification was sent
C30_Witness ==
    /\ last.op = "invoke_transfer"
    /\ IsOk(last.res)
    /\ last.ids # <<>>
    /\ hook.inter.from = ALICE_ID
    /\ hook.inter.to = BOB_ID
    /\ Load(root).token_data[last.ids[1]].owner = BOB_ID
    /\ last.pre.token_data[last.ids[1]].owner = ALICE_ID
    /\ root # root0
    /\ hook.sends = 0

\* the methods of the handle that resolve two addresses before they touch
\* the state, and what each makes of its first and of its second address
ResolvingOps == {"mint", "transfer", "transfer_from", "approve", "approve_for_owner"}

FirstResolved ==
    IF last.op \in {"transfer", "transfer_from"} THEN ResolveOrInit(last.a1)
    ELSE ResolveId(last.a1)

SecondResolved == ResolveOrInit(last.a2)

\* C31: when mint, transfer, transfer_from, approve or approve_for_owner
\* cannot resolve its caller/operator or cannot initialise its
\* recipient/operator, it returns that messaging error (the first address's
\* if both fail), the state in memory and the root are as before the call,
\* and there is no receiver hook.
C31_UnresolvedAddressChangesNothing ==
    (last.op \in ResolvingOps /\ (~IsOk(FirstResolved) \/ ~IsOk(SecondResolved)))
        => /\ last.res = IF ~IsOk(FirstResolved) THEN FirstResolved
                         ELSE SecondResolved
           /\ last.res.kind = "AddressNotInitialised"
           /\ state = last.pre
           /\ root = root0
           /\ root = Save(last.pre)
           /\ ~hook.live
           /\ pc = "done"

\* an operator's transfer of a live token whose recipient cannot be
\* initialised, and an approval for all given by an owner with tokens to an
\* operator that cannot be initialised
C31_Witness ==
    /\ last.op \in {"transfer_from", "approve_for_owner"}
    /\ IsOk(FirstResolved)
    /\ ~IsOk(SecondResolved)
    /\ last.pre.total_supply > 0
    /\ last.op = "approve_for_owner" => GetBalance(last.pre, FirstResolved.val) > 0
    /\ last.op = "transfer_from" =>
          IsOk(ApprovedForToken(last.pre.token_data, last.pre.owner_data,
                                FirstResolved.val, last.ids[1]))

\* C32: after a cross-actor call of a transfer (the send of
\* initialise_account, the receiver hook) the handle works on the state at
\* the actor's current root: the state a transfer mutates and is about to
\* persist is the one stored at the root, and the state its return value is
\* read from is the one stored at the root.
C32_StateNeverOlderThanRoot ==
    /\ (pc = "pending" /\ last.op = "transfer") => Save(last.pre) = root
    /\ (pc = "done" /\ last.op = "transfer" /\ last.ret.set) => state = Load(root)

\* the latest call is a burn by the owner or by an operator
BurnRan == last.op \in {"invoke_burn", "burn_for"}

\* the token at position i of the batch could, before the call, be burnt by
\* the caller: as its owner, or as an operator approved for it
BurnableBefore(i) ==
    IF last.op = "invoke_burn"
    THEN IsOk(OwnsToken(last.pre.token_data, last.a1.id, last.ids[i]))
    ELSE IsOk(ApprovedForToken(last.pre.token_data, last.pre.owner_data,
                               last.a1.id, last.ids[i]))

\* C33: a burn or burn_for that fails leaves the supply, every balance and
\* every token record as they were, in memory and at the root; a batch that
\* names an id it cannot burn fails, and one that repeats an id fails at the
\* repetition, with an error that names the repeated id.
C33_FailedBurnChangesNothing ==
    /\ (BurnRan /\ ~IsOk(last.res)) => (state = last.pre /\ root = Save(last.pre))
    /\ (BurnRan /\ \E i \in DOMAIN last.ids : ~BurnableBefore(i))
            => ~IsOk(last.res)
    /\ (BurnRan /\ Repeats # {}) => ~IsOk(last.res)
    /\ (BurnRan /\ Repeats # {}
            /\ \A j \in 1 .. Min(Repeats) : BurnableBefore(j))
            => last.res.token_id = last.ids[Min(Repeats)]

\* a burn of the caller's token named twice, when the collection holds
\* another token too
C33_Witness ==
    /\ BurnRan
    /\ Repeats # {}
    /\ \A j \in 1 .. Min(Repeats) : BurnableBefore(j)
    /\ ~IsOk(last.res)
    /\ last.pre.total_supply > 1
    /\ state.total_supply = last.pre.total_supply

\* the live tokens of a state that an account owns
TokensOf(st, a) == {t \in DOMAIN st.token_data : st.token_data[t].owner = a}

RECURSIVE SumBalances(_, _)
SumBalances(st, accounts) ==
    IF accounts = {} THEN 0
    ELSE LET a == CHOOSE x \in accounts : TRUE
         IN  st.owner_data[a].balance + SumBalances(st, accounts \ {a})

\* every token's owner is one account, every account's balance is the number
\* of live tokens it owns, and the balances add up to the supply
Consistent(st) ==
    /\ \A t \in DOMAIN st.token_data : st.token_data[t].owner \in ActorIDs
    /\ DOMAIN st.owner_data \subseteq ActorIDs
    /\ \A a \in ActorIDs : GetBalance(st, a) = Cardinality(TokensOf(st, a))
    /\ SumBalances(st, DOMAIN st.owner_data) = st.total_supply
    /\ st.total_supply = Cardinality(DOMAIN st.token_data)

\* C34: in every state of the NFT ledger, in memory and at the root, after
\* any successful and failed mint, transfer, transfer_from, burn, burn_for,
\* approve and revoke: each live token has one owner, an account's balance
\* is the number of live tokens it owns, and the balances add up to the
\* total supply.
C34_BalancesCountTokens ==
    /\ Consistent(state)
    /\ Consistent(Load(root))

\* a collection with one token burnt and one live, after an operator has
\* transferred the live one from its owner to another account and the
\* receiver has been notified
C34_Witness ==
    /\ last.op = "transfer_from"
    /\ IsOk(last.res)
    /\ pc = "done"
    /\ last.ret.set
    /\ state = Load(root)
    /\ state.total_supply = 1
    /\ state.next_token > 1
    /\ last.pre.token_data[last.ids[1]].owner
          # state.token_data[last.ids[1]].owner

\* the latest call is a transfer that succeeded and whose recipient is the
\* sender
SelfTransferred ==
    /\ TransferRan
    /\ IsOk(last.res)
    /\ LastOwner.val = LastRecipient.val

\* C35: after a successful transfer from an account to itself every
\* account's record (balance and account-level operators), every token's
\* owner and the supply are as before the call, the ids of the batch have
\* no approved operator, and the other tokens keep theirs.
C35_SelfTransferKeepsBalances ==
    SelfTransferred =>
        /\ state.owner_data = last.pre.owner_data
        /\ state.total_supply = last.pre.total_supply
        /\ state.next_token = last.pre.next_token
        /\ DOMAIN state.token_data = DOMAIN last.pre.token_data
        /\ \A t \in DOMAIN state.token_data :
              /\ state.token_data[t].owner = last.pre.token_data[t].owner
              /\ state.token_data[t].operators =
                    IF \E i \in DOMAIN last.ids : last.ids[i] = t THEN {}
                    ELSE last.pre.token_data[t].operators

\* an account transfers to itself a token that had an approved operator
C35_Witness ==
    /\ SelfTransferred
    /\ last.ids # <<>>
    /\ last.pre.token_data[last.ids[1]].operators # {}
    /\ GetBalance(state, LastOwner.val) > 0

\* FactoryToken's methods that call a receiver hook
HookOps == {"ft_mint", "ft_transfer", "ft_transfer_from"}

\* C36: when FactoryToken::transfer, transfer_from or mint comes back from
\* its hook and returns, it leaves the root as the hook left it, the state
\* in memory is the state stored at that root, and its return value is read
\* from that state, whether or not the receiver changed the ledger meanwhile.
C36_ReturnsStateAtRoot ==
    [][(ledger = "FactoryToken" /\ pc = "returned" /\ pc' = "done")
          => /\ last.op \in HookOps
             /\ root' = root
             /\ state' = FactoryLoad(root)
             /\ FactorySave(state') = root'
             /\ last'.ret = TokenReturn(FactoryLoad(root).token, hook.inter)]_vars

\* a call has returned after its receiver re-entered and changed the
\* ledger: the state in memory before the reload was not the root's
C36_Witness ==
    /\ ledger = "FactoryToken"
    /\ pc = "done"
    /\ last.op \in HookOps
    /\ IsOk(last.res)
    /\ last.ret.set
    /\ reentries > 0
    /\ root # prior
    /\ last.mem # state
    /\ state = FactoryLoad(root)

\* the latest call is disable_mint
DisableMintCalled == last.op = "ft_disable_mint"

\* C37: disable_mint by the minter removes the minter, in memory and at the
\* root; by another account it fails with AddressNotAuthorized and the
\* minter stays; once minting is disabled it fails with MintingDisabled for
\* every caller; and it never changes balances, allowances or the supply.
C37_DisableMintOnlyByMinter ==
    DisableMintCalled =>
        /\ (last.pre.minter.some /\ last.a1.id = last.pre.minter.val)
              => /\ IsOk(last.res)
                 /\ state.minter = NoMinter
                 /\ FactoryLoad(root).minter = NoMinter
        /\ (last.pre.minter.some /\ last.a1.id # last.pre.minter.val)
              => /\ last.res = AddressNotAuthorized
                 /\ state.minter = last.pre.minter
                 /\ root = FactorySave(last.pre)
        /\ ~last.pre.minter.some
              => /\ last.res = MintingDisabled
                 /\ state.minter = NoMinter
                 /\ root = FactorySave(last.pre)
        /\ state.token = last.pre.token
        /\ FactoryLoad(root).token = last.pre.token

\* an account that is not the minter calls disable_mint on a token with a
\* supply and an allowance
C37_Witness ==
    /\ DisableMintCalled
    /\ last.pre.minter.some
    /\ last.a1.id # last.pre.minter.val
    /\ last.res = AddressNotAuthorized
    /\ last.pre.token.supply > 0
    /\ DOMAIN last.pre.token.allowances # {}

====
